---- MODULE Spec2Model ----
(***************************************************************************)
(* The builtin catalogue of the GLSL front-end (types, functions and      *)
(* operators registered when the builtins module is loaded) and the part  *)
(* of the application that relinks the two shader editors.                *)
(* Further: the application's documents, their loading and delayed       *)
(* saving, the store that keeps them, the start of the application and    *)
(* the popup that lists the stored documents.                             *)
(***************************************************************************)
EXTENDS Integers, Sequences, FiniteSets, TLC

\* JavaScript null, as it appears in the registration rules.
Null == "null"

VARIABLES
    pc,             \* position in the module's top-level statements
    exportKeys,     \* the property names of the module's exports object
    Types,          \* exports.Types
    TypeMap,        \* exports.TypeMap: type token -> TypeDecl
    Functions,      \* exports.Functions
    FunctionMap,    \* exports.FunctionMap: signature -> reference into Functions
    Operators,      \* exports.Operators
    OperatorMap,    \* exports.OperatorMap: signature -> reference into Operators
    vertex_parsed,  \* vertex_editor.parsed: 0 is null, else an AST
    fragment_parsed,    \* fragment_editor.parsed: 0 is null, else an AST
    parsed_timeout, \* app._parsed_timeout: 0 or the id of a timer
    timers,         \* the ids of the pending setTimeout timers
    timer_count,    \* the number of timers created so far
    vertex_external_errors,     \* the last argument of vertex_editor.external_errors
    fragment_external_errors,   \* the last argument of fragment_editor.external_errors
    elapsed,        \* milliseconds since the pending relink timer was set
    bursts,         \* history: notifications that found no relink timer pending
    callbacks,      \* history: runs of the relink timer's callback
    link_runs,      \* history: calls of Linker.link
    linked,         \* history: the parse results the last link run was given
    document,       \* app.document: 0 is null, else a Document object
    loading,        \* app._loading
    save_timeout,   \* app._save_timeout: Undefined, 0 or the id of a timer
    documents,      \* the Document objects created so far
    timeouts,       \* the pending setTimeout timers of loading and saving
    timeout_count,  \* the number of those timers created so far
    db,             \* the records of the 'documents' object store
    db_key,         \* the current number of the object store's key generator
    requests,       \* the database requests not yet completed, in order of issue
    store_calls,    \* history: the calls of Store.save and Store.delete
    load_requests,  \* history: the documents _load_doc was called with, in order
    loads_run,      \* history: the runs of _load_doc_real, in order
    new_documents,  \* history: the calls of new_document
    save_bursts,    \* history: delayed-save calls that found no save timer pending
    delayed_saves,  \* history: runs of the save timer's callback
    since_save,     \* milliseconds since the last delayed-save call
    changes,        \* history: notifications the documents have emitted
    owed,           \* history: a source change no _update_renderer has followed yet
    renderer_updates,   \* history: calls of _update_renderer
    updates,        \* history: updates of a document by editor events
    clicks,         \* history: clicks on the button 'new'
    startup,        \* how far _init and the callbacks it starts have come
    localStorage,   \* the item 'savedDocumentBeforeUnload' of localStorage
    content,        \* the li elements of the open popup's list, {} without a popup
    delete_clicks,  \* history: the clicks on a delete button of the popup
    type_errors,    \* history: handlers that ended by dereferencing a null document
    input,          \* the arguments of the function a function specification applies
    output          \* <<>>, or the one result of applying it

\* bounds of the model
MaxAst == 2

MaxTimers == 3

app == <<vertex_parsed, fragment_parsed, parsed_timeout, timers, timer_count,
         vertex_external_errors, fragment_external_errors,
         elapsed, bursts, callbacks, link_runs, linked>>

call == <<input, output>>

persistence == <<document, loading, save_timeout, documents, timeouts, timeout_count,
                 db, db_key, requests, store_calls, load_requests, loads_run,
                 new_documents, save_bursts, delayed_saves, since_save, changes, owed,
                 renderer_updates, updates, clicks, startup, localStorage, content,
                 delete_clicks, type_errors>>

catalogue == <<exportKeys, Types, TypeMap, Functions, FunctionMap, Operators, OperatorMap>>

----------------------------------------------------------------------------
\* builtins.Type and its classification helpers

Type_is_vec(tok) ==
    tok \in {"T_VEC2", "T_VEC3", "T_VEC4",
             "T_BVEC2", "T_BVEC3", "T_BVEC4",
             "T_IVEC2", "T_IVEC3", "T_IVEC4"}

Type_is_mat(tok) ==
    tok \in {"T_MAT2", "T_MAT3", "T_MAT4"}

Type_is_scalar(tok) ==
    tok \in {"T_FLOAT", "T_INT", "T_BOOL"}

Type_is_int(tok) ==
    tok \in {"T_INT", "T_IVEC2", "T_IVEC3", "T_IVEC4"}

Type_is_bool(tok) ==
    tok \in {"T_BOOL", "T_BVEC2", "T_BVEC3", "T_BVEC4"}

Type_is_float(tok) ==
    tok \in {"T_FLOAT", "T_VEC2", "T_VEC3", "T_VEC4", "T_MAT2", "T_MAT3", "T_MAT4"}

\* a length table that lacks the bvec cases
Type_length_without_bvec(tok) ==
    CASE tok \in {"T_FLOAT", "T_INT", "T_BOOL"} -> 1
      [] tok \in {"T_VEC2", "T_IVEC2", "T_MAT2"} -> 2
      [] tok \in {"T_VEC3", "T_IVEC3", "T_MAT3"} -> 3
      [] tok \in {"T_VEC4", "T_IVEC4", "T_MAT4"} -> 4
      [] OTHER -> 0

Type_length(tok) ==
    CASE tok \in {"T_FLOAT", "T_INT", "T_BOOL"} -> 1
      [] tok \in {"T_VEC2", "T_IVEC2", "T_BVEC2", "T_MAT2"} -> 2
      [] tok \in {"T_VEC3", "T_IVEC3", "T_BVEC3", "T_MAT3"} -> 3
      [] tok \in {"T_VEC4", "T_IVEC4", "T_BVEC4", "T_MAT4"} -> 4
      [] OTHER -> 0

Type_name(tok) ==
    CASE tok = "T_VOID" -> "void"
      [] tok = "T_FLOAT" -> "float"
      [] tok = "T_INT" -> "int"
      [] tok = "T_BOOL" -> "bool"
      [] tok = "T_VEC2" -> "vec2"
      [] tok = "T_VEC3" -> "vec3"
      [] tok = "T_VEC4" -> "vec4"
      [] tok = "T_BVEC2" -> "bvec2"
      [] tok = "T_BVEC3" -> "bvec3"
      [] tok = "T_BVEC4" -> "bvec4"
      [] tok = "T_IVEC2" -> "ivec2"
      [] tok = "T_IVEC3" -> "ivec3"
      [] tok = "T_IVEC4" -> "ivec4"
      [] tok = "T_MAT2" -> "mat2"
      [] tok = "T_MAT3" -> "mat3"
      [] tok = "T_MAT4" -> "mat4"
      [] tok = "T_SAMPLER2D" -> "sampler2D"
      [] tok = "T_SAMPLERCUBE" -> "samplerCube"
      [] OTHER -> "undefined"

Type(id) ==
    [id |-> id,
     name |-> Type_name(id),
     incomplete |-> FALSE,
     is_scalar |-> Type_is_scalar(id),
     is_vec |-> Type_is_vec(id),
     is_mat |-> Type_is_mat(id),
     is_int |-> Type_is_int(id),
     is_float |-> Type_is_float(id),
     is_bool |-> Type_is_bool(id),
     length |-> Type_length(id),
     is_builtin |-> TRUE]

btypetoks ==
    <<"T_VOID",
      "T_FLOAT", "T_INT", "T_BOOL",
      "T_VEC2", "T_VEC3", "T_VEC4",
      "T_BVEC2", "T_BVEC3", "T_BVEC4",
      "T_IVEC2", "T_IVEC3", "T_IVEC4",
      "T_MAT2", "T_MAT3", "T_MAT4",
      "T_SAMPLER2D", "T_SAMPLERCUBE">>

\* name[0].toUpperCase() + name.slice(1), on the names Type_name produces
Capitalize(name) ==
    CASE name = "void" -> "Void"
      [] name = "float" -> "Float"
      [] name = "int" -> "Int"
      [] name = "bool" -> "Bool"
      [] name = "vec2" -> "Vec2"
      [] name = "vec3" -> "Vec3"
      [] name = "vec4" -> "Vec4"
      [] name = "bvec2" -> "Bvec2"
      [] name = "bvec3" -> "Bvec3"
      [] name = "bvec4" -> "Bvec4"
      [] name = "ivec2" -> "Ivec2"
      [] name = "ivec3" -> "Ivec3"
      [] name = "ivec4" -> "Ivec4"
      [] name = "mat2" -> "Mat2"
      [] name = "mat3" -> "Mat3"
      [] name = "mat4" -> "Mat4"
      [] name = "sampler2D" -> "Sampler2D"
      [] name = "samplerCube" -> "SamplerCube"
      [] OTHER -> "Undefined"

\* new glsl.source.BuiltinRange()
BuiltinRange == "BuiltinRange"

\* dtn.create_token(id, text, location)
create_token(id, text, location) == [id |-> id, text |-> text, location |-> location]

\* Node.complete(): the node, marked complete
complete(node) == [node EXCEPT !.incomplete = FALSE]

\* new glsl.ast.Type(token): a node starts incomplete
ast_Type(token, type) == [token |-> token, type |-> type, incomplete |-> TRUE]

\* One iteration of the loop of Type._create_builtin: the TypeDecl of token tok.
builtin_decl(tok) ==
    LET bloc == BuiltinRange
        decl == [type |-> complete(ast_Type(create_token(tok, Type_name(tok), bloc),
                                            Type(tok))),
                 semi |-> create_token("T_SEMICOLON", ";", bloc),
                 incomplete |-> TRUE]
    IN [decl EXCEPT !.incomplete = FALSE]

\* Type._create_builtin: Types in the order of btypetoks, TypeMap[tok] the decl stored
\* last under tok, and one export per capitalised type name besides Types and TypeMap.
Type_create_builtin ==
    LET decls == [i \in 1..Len(btypetoks) |-> builtin_decl(btypetoks[i])]
        last(tok) == CHOOSE i \in DOMAIN decls :
                        /\ btypetoks[i] = tok
                        /\ \A m \in DOMAIN decls : btypetoks[m] = tok => m <= i
    IN [Types |-> decls,
        TypeMap |-> [tok \in {btypetoks[i] : i \in DOMAIN decls} |-> decls[last(tok)]],
        keys |-> {"Types", "TypeMap"}
                 \cup {Capitalize(Type_name(btypetoks[i])) : i \in DOMAIN decls}]

----------------------------------------------------------------------------
\* Builtin functions

RECURSIVE join_names(_, _)
join_names(parameters, k) ==
    IF k > Len(parameters) THEN ""
    ELSE (IF k > 1 THEN "," ELSE "") \o parameters[k].type.type.name
         \o join_names(parameters, k + 1)

\* FunctionHeader.signature: the name and the comma-joined parameter type names
signature(header) ==
    header.name.text \o "(" \o join_names(header.parameters, 1) \o ")"

\* The FunctionHeader define_builtin_function builds from a return TypeDecl, a name
\* and the array sp of parameter TypeDecls and names.
\* rettype.id: the property read of define_builtin_function, undefined on a
\* node that has no such property
id_of(node) == IF "id" \in DOMAIN node THEN node.id ELSE "undefined"

\* a header whose parameter declarations are left as constructed
function_header_raw_parameters(rettype, name, sp) ==
    LET bloc == BuiltinRange
        type == [ast_Type(create_token(id_of(rettype),
                                       Type_name(id_of(rettype)), bloc), rettype)
                     EXCEPT !.incomplete = FALSE]
        header == [type |-> type,
                   name |-> create_token("T_IDENTIFIER", name, bloc),
                   left_paren |-> create_token("T_LEFT_PAREN", "(", bloc),
                   right_paren |-> create_token("T_RIGHT_PAREN", ")", bloc),
                   incomplete |-> TRUE,
                   parameters |-> <<>>]
    IN [header EXCEPT
           !.incomplete = FALSE,
           !.parameters =
               [k \in 1..(Len(sp) \div 2) |->
                   [type |-> sp[2 * k - 1].type,
                    name |-> create_token("T_IDENTIFIER", sp[2 * k], bloc),
                    incomplete |-> TRUE]]]

function_header(rettype, name, sp) ==
    LET bloc == BuiltinRange
        type == [ast_Type(create_token(id_of(rettype),
                                       Type_name(id_of(rettype)), bloc), rettype)
                     EXCEPT !.incomplete = FALSE]
        header == [type |-> type,
                   name |-> create_token("T_IDENTIFIER", name, bloc),
                   left_paren |-> create_token("T_LEFT_PAREN", "(", bloc),
                   right_paren |-> create_token("T_RIGHT_PAREN", ")", bloc),
                   incomplete |-> TRUE,
                   parameters |-> <<>>]
    IN [header EXCEPT
           !.incomplete = FALSE,
           !.parameters =
               [k \in 1..(Len(sp) \div 2) |->
                   complete([type |-> sp[2 * k - 1].type,
                             name |-> create_token("T_IDENTIFIER", sp[2 * k], bloc),
                             incomplete |-> TRUE])]]

\* a registration that lacks the membership test on FunctionMap
function_register_unchecked(st, header) ==
    [Functions |-> Append(st.Functions,
                          [header |-> header,
                           semi |-> create_token("T_SEMICOLON", ";", BuiltinRange),
                           incomplete |-> FALSE]),
     FunctionMap |-> (signature(header) :> (Len(st.Functions) + 1)) @@ st.FunctionMap,
     returned |-> Len(st.Functions) + 1]

\* The end of define_builtin_function: nothing happens when the signature is a key
\* of FunctionMap, else the new FunctionProto is pushed, stored and returned. st
\* holds Functions and FunctionMap; returned is the value returned: 0 for
\* undefined, else the reference to the new prototype.
function_register(st, header) ==
    LET sig == signature(header)
    IN IF sig \in DOMAIN st.FunctionMap
       THEN [st EXCEPT !.returned = 0]
       ELSE LET f == [header |-> header,
                      semi |-> create_token("T_SEMICOLON", ";", BuiltinRange),
                      incomplete |-> FALSE]
            IN [Functions |-> Append(st.Functions, f),
                FunctionMap |-> (sig :> (Len(st.Functions) + 1)) @@ st.FunctionMap,
                returned |-> Len(st.Functions) + 1]

\* define_builtin_function from the point where rettype and the parameter types
\* are TypeDecls (the isPrototypeOf branches taken by the generic helpers)
define_builtin_function_decl(st, rettype, name, sp) ==
    function_register(st, function_header(rettype, name, sp))

\* define_builtin_function called with type tokens
define_builtin_function(st, rettype, name, params) ==
    define_builtin_function_decl(st, TypeMap[rettype], name,
        [i \in 1..Len(params) |-> IF i % 2 = 1 THEN TypeMap[params[i]] ELSE params[i]])

\* the substitution of one parameter slot in define_builtin_function_gen
gen_param(item, g) ==
    IF item = Null THEN TypeMap[g] ELSE TypeMap[item]

\* a return type that is not substituted
gen_rettype_fixed(rettype, g) ==
    IF rettype # Null THEN TypeMap[rettype] ELSE TypeMap["T_FLOAT"]

\* the return type define_builtin_function_gen passes on
gen_rettype(rettype, g) ==
    IF rettype # Null THEN TypeMap[rettype] ELSE TypeMap[g]

RECURSIVE define_builtin_function_gen(_, _, _, _, _, _)
define_builtin_function_gen(st, i, gentypes, rettype, name, params) ==
    IF i > Len(gentypes) THEN st
    ELSE LET g == gentypes[i]
             sp == [j \in 1..Len(params) |->
                       IF j % 2 = 1 THEN gen_param(params[j], g) ELSE params[j]]
         IN define_builtin_function_gen(
                define_builtin_function_decl(st, gen_rettype(rettype, g), name, sp),
                i + 1, gentypes, rettype, name, params)

\* a list of generic types that lacks vec4
gentype_gentypes_short == <<"T_FLOAT", "T_VEC2", "T_VEC3">>

gentype_gentypes == <<"T_FLOAT", "T_VEC2", "T_VEC3", "T_VEC4">>

define_builtin_gentype_function(st, rettype, name, params) ==
    define_builtin_function_gen(st, 1, gentype_gentypes, rettype, name, params)

mat_gentypes == <<"T_MAT2", "T_MAT3", "T_MAT4">>

define_builtin_mat_function(st, rettype, name, params) ==
    define_builtin_function_gen(st, 1, mat_gentypes, rettype, name, params)

\* a family table in which vec names vec3 twice
vmap_repeated ==
    [fam \in {"bvec", "vec", "ivec"} |->
        CASE fam = "bvec" -> <<"T_BVEC2", "T_BVEC3", "T_BVEC4">>
          [] fam = "vec" -> <<"T_VEC2", "T_VEC3", "T_VEC3">>
          [] fam = "ivec" -> <<"T_IVEC2", "T_IVEC3", "T_IVEC4">>]

vmap ==
    [fam \in {"bvec", "vec", "ivec"} |->
        CASE fam = "bvec" -> <<"T_BVEC2", "T_BVEC3", "T_BVEC4">>
          [] fam = "vec" -> <<"T_VEC2", "T_VEC3", "T_VEC4">>
          [] fam = "ivec" -> <<"T_IVEC2", "T_IVEC3", "T_IVEC4">>]

\* the replacement of one slot (return or parameter type) at arity index i
relvec_slot(p, i) ==
    IF p \in DOMAIN vmap THEN vmap[p][i] ELSE p

RECURSIVE define_builtin_relvec_function(_, _, _, _, _)
define_builtin_relvec_function(st, i, rettype, name, params) ==
    IF i > 3 THEN st
    ELSE LET ret == relvec_slot(rettype, i)
             sp == [j \in 1..Len(params) |->
                       IF j % 2 = 1 THEN relvec_slot(params[j], i) ELSE params[j]]
         IN define_builtin_relvec_function(
                define_builtin_function(st, ret, name, sp),
                i + 1, rettype, name, params)

----------------------------------------------------------------------------
\* Builtin operators

\* Tokenizer.token_name: the text of an operator token
token_name(op) ==
    CASE op = "T_PLUS" -> "+"
      [] op = "T_DASH" -> "-"
      [] op = "T_STAR" -> "*"
      [] op = "T_SLASH" -> "/"
      [] op = "T_LEFT_ANGLE_OP" -> "<"
      [] op = "T_RIGHT_ANGLE" -> ">"
      [] op = "T_LE_OP" -> "<="
      [] op = "T_GE_OP" -> ">="
      [] op = "T_EQ_OP" -> "=="
      [] op = "T_NE_OP" -> "!="
      [] op = "T_AND_OP" -> "&&"
      [] op = "T_OR_OP" -> "||"
      [] op = "T_XOR_OP" -> "^^"
      [] op = "T_INC_OP" -> "++"
      [] op = "T_DEC_OP" -> "--"
      [] op = "T_BANG" -> "!"
      [] OTHER -> "undefined"

\* a return type that ignores the rettype argument
operator_ret_of_operand(rettype, g) ==
    TypeMap[g].type.type

\* o.ret of an operator entry
operator_ret(rettype, g) ==
    IF rettype = Null THEN TypeMap[g].type.type ELSE TypeMap[rettype].type.type

\* o.lhs, o.rhs or o.expr of an operator entry
operator_operand(fixed, g) ==
    IF fixed = Null THEN TypeMap[g].type.type ELSE TypeMap[fixed].type.type

\* the (op, g) pairs in the order the two nested loops visit them
loop_pairs(optypes, gens) ==
    [k \in 1..(Len(optypes) * Len(gens)) |->
        <<optypes[((k - 1) \div Len(gens)) + 1], gens[((k - 1) % Len(gens)) + 1]>>]

\* exports.Operators.push(o); exports.OperatorMap[sig] = o, for the entries os in
\* order: each is appended, and a signature refers to the entry stored last under it.
operators_register(st, os, sigs) ==
    LET last(s) == CHOOSE k \in DOMAIN os :
                      /\ sigs[k] = s
                      /\ \A m \in DOMAIN os : sigs[m] = s => m <= k
    IN [Operators |-> st.Operators \o os,
        OperatorMap |->
            [s \in DOMAIN st.OperatorMap \cup {sigs[k] : k \in DOMAIN os} |->
                IF \E k \in DOMAIN os : sigs[k] = s
                THEN Len(st.Operators) + last(s)
                ELSE st.OperatorMap[s]]]

\* the body of the inner loop of define_builtin_bin_operator_gen
bin_operator(rettype, op, lhs, rhs, g) ==
    [op |-> op,
     ret |-> operator_ret(rettype, g),
     lhs |-> operator_operand(lhs, g),
     rhs |-> operator_operand(rhs, g)]

bin_signature(o) ==
    token_name(o.op) \o "(" \o o.lhs.name \o "," \o o.rhs.name \o ")"

define_builtin_bin_operator_gen(st, rettype, optypes, lhs, rhs, gens) ==
    LET pairs == loop_pairs(optypes, gens)
        os == [k \in DOMAIN pairs |->
                  bin_operator(rettype, pairs[k][1], lhs, rhs, pairs[k][2])]
    IN operators_register(st, os, [k \in DOMAIN pairs |-> bin_signature(os[k])])

\* the body of the inner loop of define_builtin_unary_operator_gen
unary_operator(rettype, op, expr, g) ==
    [op |-> op,
     ret |-> operator_ret(rettype, g),
     expr |-> operator_operand(expr, g)]

unary_signature(o) ==
    token_name(o.op) \o "(" \o o.expr.name \o ")"

define_builtin_unary_operator_gen(st, rettype, optypes, expr, gens) ==
    LET pairs == loop_pairs(optypes, gens)
        os == [k \in DOMAIN pairs |->
                  unary_operator(rettype, pairs[k][1], expr, pairs[k][2])]
    IN operators_register(st, os, [k \in DOMAIN pairs |-> unary_signature(os[k])])

----------------------------------------------------------------------------
\* The registrations the module performs when it is loaded, in source order

StmtFunction(rettype, name, params) ==
    [kind |-> "function", rettype |-> rettype, name |-> name, params |-> params]

StmtGentype(rettype, name, params) ==
    [kind |-> "gentype", rettype |-> rettype, name |-> name, params |-> params]

StmtMat(rettype, name, params) ==
    [kind |-> "mat", rettype |-> rettype, name |-> name, params |-> params]

StmtRelvec(rettype, name, params) ==
    [kind |-> "relvec", rettype |-> rettype, name |-> name, params |-> params]

StmtBinOp(rettype, optypes, lhs, rhs, gens) ==
    [kind |-> "binop", rettype |-> rettype, optypes |-> optypes,
     lhs |-> lhs, rhs |-> rhs, gens |-> gens]

StmtUnaryOp(rettype, optypes, expr, gens) ==
    [kind |-> "unaryop", rettype |-> rettype, optypes |-> optypes,
     expr |-> expr, gens |-> gens]

Script ==
  <<
    StmtGentype(Null, "radians", <<Null, "degrees">>),
    StmtGentype(Null, "degrees", <<Null, "radians">>),
    StmtGentype(Null, "sin", <<Null, "angle">>),
    StmtGentype(Null, "cos", <<Null, "angle">>),
    StmtGentype(Null, "tan", <<Null, "angle">>),
    StmtGentype(Null, "asin", <<Null, "x">>),
    StmtGentype(Null, "acos", <<Null, "x">>),
    StmtGentype(Null, "atan", <<Null, "y", Null, "x">>),
    StmtGentype(Null, "atan", <<Null, "y_over_x">>),
    StmtGentype(Null, "pow", <<Null, "x", Null, "y">>),
    StmtGentype(Null, "exp", <<Null, "x">>),
    StmtGentype(Null, "log", <<Null, "x">>),
    StmtGentype(Null, "exp2", <<Null, "x">>),
    StmtGentype(Null, "log2", <<Null, "x">>),
    StmtGentype(Null, "sqrt", <<Null, "x">>),
    StmtGentype(Null, "inversesqrt", <<Null, "x">>),
    StmtGentype(Null, "abs", <<Null, "x">>),
    StmtGentype(Null, "sign", <<Null, "x">>),
    StmtGentype(Null, "floor", <<Null, "x">>),
    StmtGentype(Null, "ceil", <<Null, "x">>),
    StmtGentype(Null, "fract", <<Null, "x">>),
    StmtGentype(Null, "mod", <<Null, "x", Null, "y">>),
    StmtGentype(Null, "min", <<Null, "x", Null, "y">>),
    StmtGentype(Null, "min", <<Null, "x", "T_FLOAT", "y">>),
    StmtGentype(Null, "max", <<Null, "x", Null, "y">>),
    StmtGentype(Null, "max", <<Null, "x", "T_FLOAT", "y">>),
    StmtGentype(Null, "clamp", <<Null, "x", Null, "minVal", Null, "maxVal">>),
    StmtGentype(Null, "clamp", <<Null, "x", "T_FLOAT", "minVal", "T_FLOAT", "maxVal">>),
    StmtGentype(Null, "mix", <<Null, "x", Null, "y", Null, "a">>),
    StmtGentype(Null, "mix", <<Null, "x", Null, "y", "T_FLOAT", "a">>),
    StmtGentype(Null, "step", <<Null, "edge", Null, "x">>),
    StmtGentype(Null, "step", <<"T_FLOAT", "edge", Null, "x">>),
    StmtGentype(Null, "smoothstep", <<Null, "edge0", Null, "edge1", Null, "x">>),
    StmtGentype(Null, "smoothstep", <<"T_FLOAT", "edge0", "T_FLOAT", "edge1", Null, "x">>),
    StmtGentype("T_FLOAT", "length", <<Null, "x">>),
    StmtGentype("T_FLOAT", "distance", <<Null, "p0", Null, "p1">>),
    StmtGentype("T_FLOAT", "dot", <<Null, "x", Null, "y">>),
    StmtFunction("T_VEC3", "cross", <<"T_VEC3", "x", "T_VEC3", "y">>),
    StmtGentype(Null, "normalize", <<Null, "x">>),
    StmtGentype(Null, "faceforward", <<Null, "N", Null, "I", Null, "Nref">>),
    StmtGentype(Null, "reflect", <<Null, "I", Null, "N">>),
    StmtGentype(Null, "refract", <<Null, "I", Null, "N", "T_FLOAT", "eta">>),
    StmtMat(Null, "matrixCompMult", <<Null, "x", Null, "y">>),
    StmtRelvec("bvec", "lessThan", <<"vec", "x", "vec", "y">>),
    StmtRelvec("bvec", "lessThan", <<"ivec", "x", "ivec", "y">>),
    StmtRelvec("bvec", "lessThanEqual", <<"vec", "x", "vec", "y">>),
    StmtRelvec("bvec", "lessThanEqual", <<"ivec", "x", "ivec", "y">>),
    StmtRelvec("bvec", "greaterThan", <<"vec", "x", "vec", "y">>),
    StmtRelvec("bvec", "greaterThan", <<"ivec", "x", "ivec", "y">>),
    StmtRelvec("bvec", "greaterThanEqual", <<"vec", "x", "vec", "y">>),
    StmtRelvec("bvec", "greaterThanEqual", <<"ivec", "x", "ivec", "y">>),
    StmtRelvec("bvec", "equal", <<"vec", "x", "vec", "y">>),
    StmtRelvec("bvec", "equal", <<"ivec", "x", "ivec", "y">>),
    StmtRelvec("bvec", "notEqual", <<"vec", "x", "vec", "y">>),
    StmtRelvec("bvec", "notEqual", <<"ivec", "x", "ivec", "y">>),
    StmtRelvec("bvec", "notEqual", <<"bvec", "x", "bvec", "y">>),
    StmtRelvec("T_BOOL", "any", <<"bvec", "x">>),
    StmtRelvec("T_BOOL", "all", <<"bvec", "x">>),
    StmtRelvec("bvec", "not", <<"bvec", "x">>),
    StmtFunction("T_VEC4", "texture2D", <<"T_SAMPLER2D", "sampler", "T_VEC2", "coord">>),
    StmtFunction("T_VEC4", "texture2D", <<"T_SAMPLER2D", "sampler", "T_VEC2", "coord", "T_FLOAT", "bias">>),
    StmtFunction("T_VEC4", "texture2DProj", <<"T_SAMPLER2D", "sampler", "T_VEC3", "coord">>),
    StmtFunction("T_VEC4", "texture2DProj", <<"T_SAMPLER2D", "sampler", "T_VEC3", "coord", "T_FLOAT", "bias">>),
    StmtFunction("T_VEC4", "texture2DProj", <<"T_SAMPLER2D", "sampler", "T_VEC4", "coord">>),
    StmtFunction("T_VEC4", "texture2DProj", <<"T_SAMPLER2D", "sampler", "T_VEC4", "coord", "T_FLOAT", "bias">>),
    StmtFunction("T_VEC4", "texture2DLod", <<"T_SAMPLER2D", "sampler", "T_VEC2", "coord", "T_FLOAT", "lod">>),
    StmtFunction("T_VEC4", "texture2DProjLod", <<"T_SAMPLER2D", "sampler", "T_VEC3", "coord", "T_FLOAT", "lod">>),
    StmtFunction("T_VEC4", "texture2DProjLod", <<"T_SAMPLER2D", "sampler", "T_VEC4", "coord", "T_FLOAT", "lod">>),
    StmtFunction("T_VEC4", "textureCube", <<"T_SAMPLERCUBE", "sampler", "T_VEC3", "coord">>),
    StmtFunction("T_VEC4", "textureCube", <<"T_SAMPLERCUBE", "sampler", "T_VEC3", "coord", "T_FLOAT", "bias">>),
    StmtFunction("T_VEC4", "textureCubeLod", <<"T_SAMPLERCUBE", "sampler", "T_VEC3", "coord", "T_FLOAT", "lod">>),
    StmtBinOp(Null, <<"T_PLUS", "T_DASH", "T_STAR", "T_SLASH">>, Null, Null, <<"T_INT", "T_FLOAT", "T_VEC2", "T_VEC3", "T_VEC4", "T_MAT2", "T_MAT3", "T_MAT4", "T_IVEC2", "T_IVEC3", "T_IVEC4">>),
    StmtBinOp(Null, <<"T_PLUS", "T_DASH", "T_STAR", "T_SLASH">>, "T_FLOAT", Null, <<"T_VEC2", "T_VEC3", "T_VEC4", "T_MAT2", "T_MAT3", "T_MAT3">>),
    StmtBinOp(Null, <<"T_PLUS", "T_DASH", "T_STAR", "T_SLASH">>, Null, "T_FLOAT", <<"T_VEC2", "T_VEC3", "T_VEC4", "T_MAT2", "T_MAT3", "T_MAT3">>),
    StmtBinOp(Null, <<"T_PLUS", "T_DASH", "T_STAR", "T_SLASH">>, "T_INT", Null, <<"T_IVEC2", "T_IVEC3", "T_IVEC4">>),
    StmtBinOp(Null, <<"T_PLUS", "T_DASH", "T_STAR", "T_SLASH">>, Null, "T_INT", <<"T_IVEC2", "T_IVEC3", "T_IVEC4">>),
    StmtBinOp(Null, <<"T_STAR">>, "T_MAT2", Null, <<"T_VEC2">>),
    StmtBinOp(Null, <<"T_STAR">>, "T_MAT3", Null, <<"T_VEC3">>),
    StmtBinOp(Null, <<"T_STAR">>, "T_MAT4", Null, <<"T_VEC4">>),
    StmtBinOp(Null, <<"T_STAR">>, "T_VEC2", Null, <<"T_MAT2">>),
    StmtBinOp(Null, <<"T_STAR">>, "T_VEC3", Null, <<"T_MAT3">>),
    StmtBinOp(Null, <<"T_STAR">>, "T_VEC4", Null, <<"T_MAT4">>),
    StmtBinOp("T_BOOL", <<"T_LEFT_ANGLE_OP", "T_RIGHT_ANGLE", "T_LE_OP", "T_GE_OP">>, Null, Null, <<"T_FLOAT", "T_INT">>),
    StmtBinOp("T_BOOL", <<"T_EQ_OP", "T_NE_OP">>, Null, Null, <<"T_INT", "T_FLOAT", "T_BOOL", "T_VEC2", "T_VEC3", "T_VEC4", "T_MAT2", "T_MAT3", "T_MAT4", "T_IVEC2", "T_IVEC3", "T_IVEC4">>),
    StmtBinOp(Null, <<"T_AND_OP", "T_OR_OP", "T_XOR_OP">>, Null, Null, <<"T_BOOL">>),
    StmtUnaryOp(Null, <<"T_DASH", "T_DEC_OP", "T_INC_OP">>, Null, <<"T_INT", "T_FLOAT", "T_VEC2", "T_VEC3", "T_VEC4", "T_MAT2", "T_MAT3", "T_MAT4", "T_IVEC2", "T_IVEC3", "T_IVEC4">>),
    StmtUnaryOp(Null, <<"T_BANG">>, Null, <<"T_BOOL">>)
  >>

----------------------------------------------------------------------------
\* glsl.linker.Linker: the interface check of a vertex and a fragment AST

\* bounds of the ASTs the linker is given
MaxDecls == 2

VaryingNames == {"vColor", "vFactor"}

VaryingTypes == {"vec2", "vec3"}

\* a top-level varying declaration at line `line` of its source
VaryingDecl(name, type, incomplete, line) ==
    [qualifier |-> "varying", name |-> name, type |-> type,
     incomplete |-> incomplete, location |-> [line |-> line]]

\* the ASTs: at most MaxDecls top-level varying declarations, no name twice
Asts ==
    UNION {{[k \in 1..n |-> VaryingDecl(names[k], types[k], inc[k], k)] :
               names \in {s \in [1..n -> VaryingNames] :
                             \A i, j \in 1..n : s[i] = s[j] => i = j},
               types \in [1..n -> VaryingTypes],
               inc \in [1..n -> BOOLEAN]} :
           n \in 0..MaxDecls}

\* the complete top-level varying declarations of an AST, keyed by name
varyings(ast) ==
    LET ks == {k \in DOMAIN ast : ast[k].qualifier = "varying" /\ ~ast[k].incomplete}
    IN [name \in {ast[k].name : k \in ks} |->
           ast[CHOOSE k \in ks : ast[k].name = name]]

\* the names an AST declares with a node marked incomplete
incomplete_names(ast) ==
    {ast[k].name : k \in {j \in DOMAIN ast : ast[j].incomplete}}

absence_diagnostic(severity, decl) ==
    [severity |-> severity, kind |-> "absent", name |-> decl.name,
     location |-> decl.location, type |-> decl.type, other |-> Null]

\* every absence reported as an error
absence_severity_error(stage) == "error"

\* the severity of a varying that only `stage` declares
absence_severity(stage) == IF stage = "vertex" THEN "warning" ELSE "error"

\* a comparison of the declaration nodes instead of their resolved types
types_differ_by_node(decl, counterpart) == decl # counterpart

\* the resolved types of a varying's two declarations differ
types_differ(decl, counterpart) == decl.type # counterpart.type

\* a mismatch diagnostic anchored at the other stage's declaration
mismatch_diagnostic_at_counterpart(decl, counterpart) ==
    [severity |-> "error", kind |-> "mismatch", name |-> decl.name,
     location |-> counterpart.location, type |-> decl.type, other |-> counterpart.type]

mismatch_diagnostic(decl, counterpart) ==
    [severity |-> "error", kind |-> "mismatch", name |-> decl.name,
     location |-> decl.location, type |-> decl.type, other |-> counterpart.type]

\* an interface check that does not skip what the other stage left incomplete
stage_diagnostics_unskipped(stage, own, other, skipped) ==
    {absence_diagnostic(absence_severity(stage), own[n]) :
        n \in {m \in DOMAIN own : m \notin DOMAIN other}}
    \cup {mismatch_diagnostic(own[n], other[n]) :
        n \in {m \in DOMAIN own : m \in DOMAIN other /\ types_differ(own[m], other[m])}}

\* an interface check that reports a type mismatch to the vertex stage only
stage_diagnostics_vertex_mismatch(stage, own, other, skipped) ==
    {absence_diagnostic(absence_severity(stage), own[n]) :
        n \in {m \in DOMAIN own : m \notin DOMAIN other /\ m \notin skipped}}
    \cup {mismatch_diagnostic(own[n], other[n]) :
        n \in {m \in DOMAIN own : /\ stage = "vertex"
                                  /\ m \in DOMAIN other
                                  /\ types_differ(own[m], other[m])}}

\* the diagnostics of one stage: `own` are its varyings, `other` the other stage's,
\* `skipped` the names the other stage declares with an incomplete node
stage_diagnostics(stage, own, other, skipped) ==
    {absence_diagnostic(absence_severity(stage), own[n]) :
        n \in {m \in DOMAIN own : m \notin DOMAIN other /\ m \notin skipped}}
    \cup {mismatch_diagnostic(own[n], other[n]) :
        n \in {m \in DOMAIN own : m \in DOMAIN other /\ types_differ(own[m], other[m])}}

\* Linker(vertexAST, fragmentAST).link()
link(v, f) ==
    [vertex |-> stage_diagnostics("vertex", varyings(v), varyings(f), incomplete_names(f)),
     fragment |-> stage_diagnostics("fragment", varyings(f), varyings(v), incomplete_names(v))]

\* pc values: PcTypes runs Type._create_builtin, PcOperators creates the operator
\* tables, PcOperators + k runs Script[k], PcDone is the loaded module.
PcTypes == 0

PcOperators == 1

PcDone == Len(Script) + 2

stmt == Script[pc - PcOperators]

AtStmt(kind) ==
    /\ pc > PcOperators
    /\ pc < PcDone
    /\ stmt.kind = kind

\* a property that was never assigned: App's constructor assigns neither _loading
\* nor _save_timeout
Undefined == -1

\* the module and the application before the module's body runs
\* the state after construction, in a browser whose object store holds stored and
\* whose localStorage holds item
InitSession(stored, item) ==
    /\ pc = PcTypes
    /\ exportKeys = {"Functions", "FunctionMap"}
    /\ Functions = <<>>
    /\ FunctionMap = <<>>
    /\ Types = <<>>
    /\ TypeMap = <<>>
    /\ Operators = <<>>
    /\ OperatorMap = <<>>
    /\ vertex_parsed = 0
    /\ fragment_parsed = 0
    /\ parsed_timeout = 0
    /\ timers = {}
    /\ timer_count = 0
    /\ vertex_external_errors = {}
    /\ fragment_external_errors = {}
    /\ elapsed = 0
    /\ bursts = 0
    /\ callbacks = 0
    /\ link_runs = 0
    /\ linked = <<0, 0>>
    /\ document = 0
    /\ loading = FALSE
    /\ save_timeout = Undefined
    /\ documents = <<>>
    /\ timeouts = {}
    /\ timeout_count = 0
    /\ db = stored
    /\ db_key = IF stored = {} THEN 0
                ELSE CHOOSE k \in {r.id : r \in stored} : \A r \in stored : r.id <= k
    /\ requests = <<>>
    /\ store_calls = <<>>
    /\ load_requests = <<>>
    /\ loads_run = <<>>
    /\ new_documents = <<>>
    /\ save_bursts = 0
    /\ delayed_saves = 0
    /\ since_save = 0
    /\ changes = 0
    /\ owed = FALSE
    /\ renderer_updates = 0
    /\ updates = 0
    /\ clicks = 0
    /\ startup = "constructed"
    /\ localStorage = item
    /\ content = {}
    /\ delete_clicks = <<>>
    /\ type_errors = 0

InitModule == InitSession({}, [item |-> "absent"])

Init ==
    /\ InitModule
    /\ input = <<>>
    /\ output = <<>>

CreateBuiltinTypes ==
    /\ pc = PcTypes
    /\ Types' = Type_create_builtin.Types
    /\ TypeMap' = Type_create_builtin.TypeMap
    /\ exportKeys' = exportKeys \cup Type_create_builtin.keys
    /\ pc' = pc + 1
    /\ UNCHANGED <<Functions, FunctionMap, Operators, OperatorMap, app, call, persistence>>

CreateOperatorTables ==
    /\ pc = PcOperators
    /\ Operators' = <<>>
    /\ OperatorMap' = <<>>
    /\ exportKeys' = exportKeys \cup {"Operators", "OperatorMap"}
    /\ pc' = pc + 1
    /\ UNCHANGED <<Types, TypeMap, Functions, FunctionMap, app, call, persistence>>

FunctionsState == [Functions |-> Functions, FunctionMap |-> FunctionMap, returned |-> 0]

SetFunctions(st) ==
    /\ Functions' = st.Functions
    /\ FunctionMap' = st.FunctionMap
    /\ pc' = pc + 1
    /\ UNCHANGED <<exportKeys, Types, TypeMap, Operators, OperatorMap, app, call, persistence>>

OperatorsState == [Operators |-> Operators, OperatorMap |-> OperatorMap]

SetOperators(st) ==
    /\ Operators' = st.Operators
    /\ OperatorMap' = st.OperatorMap
    /\ pc' = pc + 1
    /\ UNCHANGED <<exportKeys, Types, TypeMap, Functions, FunctionMap, app, call, persistence>>

DefineFunction ==
    /\ AtStmt("function")
    /\ SetFunctions(define_builtin_function(FunctionsState,
                        stmt.rettype, stmt.name, stmt.params))

DefineGentypeFunction ==
    /\ AtStmt("gentype")
    /\ SetFunctions(define_builtin_gentype_function(FunctionsState,
                        stmt.rettype, stmt.name, stmt.params))

DefineMatFunction ==
    /\ AtStmt("mat")
    /\ SetFunctions(define_builtin_mat_function(FunctionsState,
                        stmt.rettype, stmt.name, stmt.params))

DefineRelvecFunction ==
    /\ AtStmt("relvec")
    /\ SetFunctions(define_builtin_relvec_function(FunctionsState, 1,
                        stmt.rettype, stmt.name, stmt.params))

DefineBinOperator ==
    /\ AtStmt("binop")
    /\ SetOperators(define_builtin_bin_operator_gen(OperatorsState,
                        stmt.rettype, stmt.optypes, stmt.lhs, stmt.rhs, stmt.gens))

DefineUnaryOperator ==
    /\ AtStmt("unaryop")
    /\ SetOperators(define_builtin_unary_operator_gen(OperatorsState,
                        stmt.rettype, stmt.optypes, stmt.expr, stmt.gens))

Load ==
    \/ CreateBuiltinTypes
    \/ CreateOperatorTables
    \/ DefineFunction
    \/ DefineGentypeFunction
    \/ DefineMatFunction
    \/ DefineRelvecFunction
    \/ DefineBinOperator
    \/ DefineUnaryOperator

----------------------------------------------------------------------------
\* The application: relinking the vertex and the fragment editor

\* the delay App._on_editor_parsed gives setTimeout, in milliseconds
parsed_delay == 50

\* the steps by which the model lets time pass while a relink timer is pending
Ticks == {parsed_delay \div 2, parsed_delay}

\* the parse result an editor holds after its i-th sample source
EditorAst(i) ==
    <<VaryingDecl("vColor", IF i % 2 = 1 THEN "vec3" ELSE "vec2", FALSE, 1)>>
    \o (IF i > 2 THEN <<VaryingDecl("vFactor", "vec2", FALSE, 2)>> ELSE <<>>)

\* a parse that creates the operator tables anew
EditorParsed_recreating(editor, ast) ==
    /\ pc = PcDone
    /\ timer_count < MaxTimers
    /\ IF editor = "vertex"
       THEN vertex_parsed' = ast /\ UNCHANGED fragment_parsed
       ELSE fragment_parsed' = ast /\ UNCHANGED vertex_parsed
    /\ timer_count' = timer_count + 1
    /\ parsed_timeout' = timer_count + 1
    /\ timers' = (IF parsed_timeout # 0 THEN timers \ {parsed_timeout} ELSE timers)
                     \cup {timer_count + 1}
    /\ elapsed' = 0
    /\ bursts' = IF parsed_timeout # 0 THEN bursts ELSE bursts + 1
    /\ Operators' = <<>>
    /\ OperatorMap' = <<>>
    /\ UNCHANGED <<pc, call, persistence, exportKeys, Types, TypeMap, Functions, FunctionMap,
                   vertex_external_errors, fragment_external_errors,
                   callbacks, link_runs, linked>>

\* a notification that leaves the pending timer running beside the new one
EditorParsed_without_clear(editor, ast) ==
    /\ pc = PcDone
    /\ timer_count < MaxTimers
    /\ IF editor = "vertex"
       THEN vertex_parsed' = ast /\ UNCHANGED fragment_parsed
       ELSE fragment_parsed' = ast /\ UNCHANGED vertex_parsed
    /\ timer_count' = timer_count + 1
    /\ parsed_timeout' = timer_count + 1
    /\ timers' = timers \cup {timer_count + 1}
    /\ elapsed' = 0
    /\ bursts' = IF parsed_timeout # 0 THEN bursts ELSE bursts + 1
    /\ UNCHANGED <<pc, call, persistence, catalogue, vertex_external_errors, fragment_external_errors,
                   callbacks, link_runs, linked>>

\* An editor finishes a parse and emits 'notify::parsed': App._on_editor_parsed
\* replaces the pending relink timer by a new one.
EditorParsed(editor, ast) ==
    /\ pc = PcDone
    /\ timer_count < MaxTimers
    /\ IF editor = "vertex"
       THEN vertex_parsed' = ast /\ UNCHANGED fragment_parsed
       ELSE fragment_parsed' = ast /\ UNCHANGED vertex_parsed
    /\ timer_count' = timer_count + 1
    /\ parsed_timeout' = timer_count + 1
    /\ timers' = (IF parsed_timeout # 0 THEN timers \ {parsed_timeout} ELSE timers)
                     \cup {timer_count + 1}
    /\ elapsed' = 0
    /\ bursts' = IF parsed_timeout # 0 THEN bursts ELSE bursts + 1
    /\ UNCHANGED <<pc, call, persistence, catalogue, vertex_external_errors, fragment_external_errors,
                   callbacks, link_runs, linked>>

\* Time passes while a relink timer is pending; a timer runs when its delay is over.
Tick(d) ==
    /\ pc = PcDone
    /\ timers # {}
    /\ elapsed + d <= parsed_delay
    /\ elapsed' = elapsed + d
    /\ UNCHANGED <<pc, call, persistence, catalogue, vertex_parsed, fragment_parsed, parsed_timeout,
                   timers, timer_count, vertex_external_errors,
                   fragment_external_errors, bursts, callbacks, link_runs, linked>>

\* a callback that hands each editor the other stage's diagnostics
ParsedTimeoutFires_crossed ==
    /\ pc = PcDone
    /\ elapsed = parsed_delay
    /\ \E id \in timers :
          /\ timers' = timers \ {id}
          /\ parsed_timeout' = 0
          /\ callbacks' = callbacks + 1
          /\ IF vertex_parsed # 0 /\ fragment_parsed # 0
             THEN LET errors == link(EditorAst(vertex_parsed), EditorAst(fragment_parsed))
                  IN /\ vertex_external_errors' = errors.fragment
                     /\ fragment_external_errors' = errors.vertex
                     /\ link_runs' = link_runs + 1
                     /\ linked' = <<vertex_parsed, fragment_parsed>>
             ELSE UNCHANGED <<vertex_external_errors, fragment_external_errors, link_runs, linked>>
    /\ UNCHANGED <<pc, call, persistence, catalogue, vertex_parsed, fragment_parsed, timer_count, elapsed,
                   bursts>>

\* a callback whose linker remembers its last run and reports no diagnostic twice
ParsedTimeoutFires_retaining ==
    /\ pc = PcDone
    /\ elapsed = parsed_delay
    /\ \E id \in timers :
          /\ timers' = timers \ {id}
          /\ parsed_timeout' = 0
          /\ callbacks' = callbacks + 1
          /\ IF vertex_parsed # 0 /\ fragment_parsed # 0
             THEN LET errors == link(EditorAst(vertex_parsed), EditorAst(fragment_parsed))
                      earlier == link(EditorAst(linked[1]), EditorAst(linked[2]))
                  IN /\ vertex_external_errors' = errors.vertex \ earlier.vertex
                     /\ fragment_external_errors' = errors.fragment \ earlier.fragment
                     /\ link_runs' = link_runs + 1
                     /\ linked' = <<vertex_parsed, fragment_parsed>>
             ELSE UNCHANGED <<vertex_external_errors, fragment_external_errors, link_runs, linked>>
    /\ UNCHANGED <<pc, call, persistence, catalogue, vertex_parsed, fragment_parsed, timer_count, elapsed,
                   bursts>>

\* The relink timer fires: the callback given to setTimeout in _on_editor_parsed
ParsedTimeoutFires ==
    /\ pc = PcDone
    /\ elapsed = parsed_delay
    /\ \E id \in timers :
          /\ timers' = timers \ {id}
          /\ parsed_timeout' = 0
          /\ callbacks' = callbacks + 1
          /\ IF vertex_parsed # 0 /\ fragment_parsed # 0
             THEN LET errors == link(EditorAst(vertex_parsed), EditorAst(fragment_parsed))
                  IN /\ vertex_external_errors' = errors.vertex
                     /\ fragment_external_errors' = errors.fragment
                     /\ link_runs' = link_runs + 1
                     /\ linked' = <<vertex_parsed, fragment_parsed>>
             ELSE UNCHANGED <<vertex_external_errors, fragment_external_errors, link_runs, linked>>
    /\ UNCHANGED <<pc, call, persistence, catalogue, vertex_parsed, fragment_parsed, timer_count, elapsed,
                   bursts>>

Application ==
    \/ \E editor \in {"vertex", "fragment"}, ast \in 0..MaxAst : EditorParsed(editor, ast)
    \/ \E d \in Ticks : Tick(d)
    \/ ParsedTimeoutFires

vars == <<pc, catalogue, app, call, persistence>>

Next == Load \/ Application

Spec == Init /\ [][Next]_vars


----------------------------------------------------------------------------
\* The linker applied to every pair of ASTs within the bounds

InitLink ==
    /\ InitModule
    /\ input \in [vertex : Asts, fragment : Asts]
    /\ output = <<>>

RunLink ==
    /\ DOMAIN input = {"vertex", "fragment"}
    /\ output = <<>>
    /\ output' = <<link(input.vertex, input.fragment)>>
    /\ UNCHANGED <<pc, catalogue, app, persistence, input>>

SpecLink == InitLink /\ [][RunLink]_vars

----------------------------------------------------------------------------
\* App._extract_js_error_loc and App._handle_js_error.  A string is the sequence of
\* its characters, a stack the sequence of its lines (stack.split('\n')).

Digit == {"0", "1", "2", "3", "4", "5", "6", "7", "8", "9"}

DigitValue(c) ==
    CASE c = "0" -> 0 [] c = "1" -> 1 [] c = "2" -> 2 [] c = "3" -> 3 [] c = "4" -> 4
      [] c = "5" -> 5 [] c = "6" -> 6 [] c = "7" -> 7 [] c = "8" -> 8 [] c = "9" -> 9

\* parseInt of a string of decimal digits
RECURSIVE parseInt(_)
parseInt(s) ==
    IF Len(s) = 0 THEN 0
    ELSE 10 * parseInt(SubSeq(s, 1, Len(s) - 1)) + DigitValue(s[Len(s)])

\* the length of the longest run of digits that ends at position `last` of s
RECURSIVE digits_before(_, _)
digits_before(s, last) ==
    IF last >= 1 /\ s[last] \in Digit THEN 1 + digits_before(s, last - 1) ELSE 0

\* the literal part of /, <anonymous>:([0-9]+):([0-9]+)\)$/ and what closes it
anon_literal == <<",", " ", "<", "a", "n", "o", "n", "y", "m", "o", "u", "s", ">", ":">>

anon_closing == <<")">>

\* the literal part of /> Function:([0-9]+):([0-9]+)$/, which nothing closes
func_literal == <<">", " ", "F", "u", "n", "c", "t", "i", "o", "n", ":">>

func_closing == <<>>

\* line.match(/literal([0-9]+):([0-9]+)closing$/): <<>> for null, else <<m>> with
\* m[1] and m[2] the two groups
match(line, literal, closing) ==
    LET end2 == Len(line) - Len(closing)
        n2 == IF end2 >= 1 THEN digits_before(line, end2) ELSE 0
        end1 == end2 - n2 - 1
        n1 == IF end1 >= 1 THEN digits_before(line, end1) ELSE 0
        start == end1 - n1 - Len(literal) + 1
    IN IF /\ end2 >= 1
          /\ SubSeq(line, end2 + 1, Len(line)) = closing
          /\ n2 >= 1
          /\ end1 >= 1
          /\ line[end1 + 1] = ":"
          /\ n1 >= 1
          /\ start >= 1
          /\ SubSeq(line, start, start + Len(literal) - 1) = literal
       THEN << <<SubSeq(line, end1 - n1 + 1, end1),
                  SubSeq(line, end2 - n2 + 1, end2)>> >>
       ELSE <<>>

\* the location the loop body of _extract_js_error_loc returns for one line, as
\* <<location>>, or <<>> when the line matches neither expression
line_location_unadjusted(line) ==
    LET anon == match(line, anon_literal, anon_closing)
        func == match(line, func_literal, func_closing)
    IN IF anon # <<>>
       THEN <<[line |-> parseInt(anon[1][1]), column |-> parseInt(anon[1][2])]>>
       ELSE IF func # <<>>
       THEN <<[line |-> parseInt(func[1][1]), column |-> parseInt(func[1][2])]>>
       ELSE <<>>

line_location(line) ==
    LET anon == match(line, anon_literal, anon_closing)
        func == match(line, func_literal, func_closing)
    IN IF anon # <<>>
       THEN <<[line |-> parseInt(anon[1][1]) - 1, column |-> parseInt(anon[1][2])]>>
       ELSE IF func # <<>>
       THEN <<[line |-> parseInt(func[1][1]), column |-> parseInt(func[1][2])]>>
       ELSE <<>>

\* _extract_js_error_loc(e): <<>> for null, else <<location>>.  e.originalStack is
\* <<>> when the error has none.
extract_js_error_loc(e) ==
    LET lines == IF e.originalStack # <<>> THEN e.originalStack ELSE e.stack
        matching == {i \in 1..Len(lines) : line_location(lines[i]) # <<>>}
    IN IF matching = {} THEN <<>>
       ELSE line_location(lines[CHOOSE i \in matching : \A j \in matching : i <= j])

\* a handler that hands the editor whatever location it got
handle_js_error_unguarded(e) ==
    LET loc == extract_js_error_loc(e)
    IN [runtime_error |-> <<[message |-> e.message, location |-> loc]>>,
        console_error |-> <<>>]

\* _handle_js_error(e): the calls it makes of js_editor.runtime_error and of
\* console.error
handle_js_error(e) ==
    LET loc == extract_js_error_loc(e)
    IN IF loc # <<>>
       THEN [runtime_error |-> <<[message |-> e.message, location |-> loc]>>,
             console_error |-> <<>>]
       ELSE [runtime_error |-> <<>>,
             console_error |-> <<e.stack>>]

\* bounds of the stacks the two functions are given
MaxLines == 2

LineNumbers == {1, 12}

\* the decimal digits of n
RECURSIVE ToDigits(_)
ToDigits(n) ==
    (IF n >= 10 THEN ToDigits(n \div 10) ELSE <<>>)
    \o <<CHOOSE c \in Digit : DigitValue(c) = n % 10>>

\* what a stack line is: a Chrome frame of evaluated code, a Firefox frame of
\* a Function body, or one of five lines of neither shape
LineShapes ==
    [kind : {"anon", "func"}, l : LineNumbers, c : LineNumbers]
    \cup [kind : {"other"}, l : 1..5, c : {0}]

\* the text of a stack line
LineText(d) ==
    CASE d.kind = "anon" ->
            <<"a", "t", " ", "(">> \o anon_literal \o ToDigits(d.l) \o <<":">>
                \o ToDigits(d.c) \o <<")">>
      [] d.kind = "func" ->
            <<"f", "@", "x", " ">> \o func_literal \o ToDigits(d.l) \o <<":">>
                \o ToDigits(d.c)
      [] d.kind = "other" /\ d.l = 1 -> <<"E", "r", "r", "o", "r", ":", " ", "x">>
      [] d.kind = "other" /\ d.l = 2 -> anon_literal \o <<"1", "2", ":", "5">>
      [] d.kind = "other" /\ d.l = 3 -> func_literal \o <<"3", ":", "7", ")">>
      [] d.kind = "other" /\ d.l = 4 -> anon_literal \o <<"1", "2", ")">>
      [] d.kind = "other" /\ d.l = 5 -> <<>>

StackShapes == UNION {[1..n -> LineShapes] : n \in 1..MaxLines}

\* an error whose lines are `shape`, held by originalStack if `original`
JsError(shape, original) ==
    LET text == [i \in 1..Len(shape) |-> LineText(shape[i])]
    IN [message |-> "x",
        stack |-> IF original THEN <<LineText([kind |-> "other", l |-> 1, c |-> 0])>>
                  ELSE text,
        originalStack |-> IF original THEN text ELSE <<>>]

InitJsError ==
    /\ InitModule
    /\ input \in {[shape |-> shape, original |-> original, e |-> JsError(shape, original)] :
                     shape \in StackShapes, original \in BOOLEAN}
    /\ output = <<>>

HandleJsError ==
    /\ "e" \in DOMAIN input
    /\ output = <<>>
    /\ output' = <<[loc |-> extract_js_error_loc(input.e),
                    calls |-> handle_js_error(input.e)]>>
    /\ UNCHANGED <<pc, catalogue, app, persistence, input>>

SpecJsError == InitJsError /\ [][HandleJsError]_vars

----------------------------------------------------------------------------
\* utils/dumpast.js

\* String.prototype.slice(start) with no end
slice(s, start) ==
    LET from == IF start < 0
                THEN (IF Len(s) + start > 0 THEN Len(s) + start ELSE 0)
                ELSE (IF start < Len(s) THEN start ELSE Len(s))
    IN SubSeq(s, from + 1, Len(s))

\* a test for suf anywhere in s: s.indexOf(suf) !== -1
has_suffix_anywhere(s, suf) ==
    \E k \in 0..(Len(s) - Len(suf)) : SubSeq(s, k + 1, k + Len(suf)) = suf

has_suffix(s, suf) == slice(s, Len(s) - Len(suf)) = suf

glslv == <<".", "g", "l", "s", "l", "v">>

ast_suffix == <<".", "a", "s", "t">>

\* what one round of the loop over process.argv does with the path argv[i]
dump_file(path) ==
    [read |-> path,
     stage |-> IF has_suffix(path, glslv) THEN "VERTEX" ELSE "FRAGMENT",
     write |-> path \o ast_suffix]

\* the script, given the paths that follow the script's name in process.argv
dumpast(paths) ==
    IF Len(paths) > 0
    THEN [files |-> [i \in 1..Len(paths) |-> dump_file(paths[i])], stdout |-> FALSE]
    ELSE [files |-> <<>>, stdout |-> TRUE]

\* bounds of the strings has_suffix is given and of the command line
MaxLen == 3

MaxArgs == 2

SuffixChars == {"v", "."}

Strings == UNION {[1..n -> SuffixChars] : n \in 0..MaxLen}

Paths ==
    {<<"a">> \o glslv, <<"a", ".", "g", "l", "s", "l", "f">>, glslv,
     <<"g", "l", "s", "l", "v">>, <<"a">> \o glslv \o ast_suffix}

InitDumpAst ==
    /\ InitModule
    /\ input \in [s : Strings, suf : Strings]
                 \cup [argv : UNION {[1..n -> Paths] : n \in 0..MaxArgs}]
    /\ output = <<>>

HasSuffix ==
    /\ "suf" \in DOMAIN input
    /\ output = <<>>
    /\ output' = <<has_suffix(input.s, input.suf)>>
    /\ UNCHANGED <<pc, catalogue, app, persistence, input>>

DumpAst ==
    /\ "argv" \in DOMAIN input
    /\ output = <<>>
    /\ output' = <<dumpast(input.argv)>>
    /\ UNCHANGED <<pc, catalogue, app, persistence, input>>

SpecDumpAst == InitDumpAst /\ [][HasSuffix \/ DumpAst]_vars

----------------------------------------------------------------------------
\* Documents, the store and the load and save timers of the application.
\* A Document object is its index in documents; a serialized document is a record
\* that has the field id only when the document has an id, and whose field of
\* names the document it is a copy of.

\* bounds: Document objects created,
\* notifications emitted, clicks on 'new',
\* direct calls of the store, and keys of the documents those calls are given
MaxDocs == 3

MaxChanges == 2

MaxClicks == 1

MaxCalls == 2

MaxKeys == 2

\* bound: database requests not yet completed
MaxPending == 2

\* the delay _load_doc gives setTimeout, in milliseconds
load_delay == 200

\* the delay _save_current_doc_with_delay gives setTimeout, in milliseconds
save_delay == 500

\* the step by which the model lets time pass while a timer is pending
step == load_delay \div 2

\* the application's state as one record, and its assignment to the next state
DocState ==
    [document |-> document, loading |-> loading, save_timeout |-> save_timeout,
     documents |-> documents, timeouts |-> timeouts, timeout_count |-> timeout_count,
     db |-> db, db_key |-> db_key, requests |-> requests, store_calls |-> store_calls,
     load_requests |-> load_requests, loads_run |-> loads_run,
     new_documents |-> new_documents, save_bursts |-> save_bursts,
     delayed_saves |-> delayed_saves, since_save |-> since_save, changes |-> changes,
     owed |-> owed, renderer_updates |-> renderer_updates, updates |-> updates,
     clicks |-> clicks, startup |-> startup, localStorage |-> localStorage,
     content |-> content, delete_clicks |-> delete_clicks, type_errors |-> type_errors]

SetDocState(s) ==
    \E next \in {s} :
        /\ document' = next.document
        /\ loading' = next.loading
        /\ save_timeout' = next.save_timeout
        /\ documents' = next.documents
        /\ timeouts' = next.timeouts
        /\ timeout_count' = next.timeout_count
        /\ db' = next.db
        /\ db_key' = next.db_key
        /\ requests' = next.requests
        /\ store_calls' = next.store_calls
        /\ load_requests' = next.load_requests
        /\ loads_run' = next.loads_run
        /\ new_documents' = next.new_documents
        /\ save_bursts' = next.save_bursts
        /\ delayed_saves' = next.delayed_saves
        /\ since_save' = next.since_save
        /\ changes' = next.changes
        /\ owed' = next.owed
        /\ renderer_updates' = next.renderer_updates
        /\ updates' = next.updates
        /\ clicks' = next.clicks
        /\ startup' = next.startup
        /\ localStorage' = next.localStorage
        /\ content' = next.content
        /\ delete_clicks' = next.delete_clicks
        /\ type_errors' = next.type_errors
        /\ UNCHANGED <<pc, catalogue, app, call>>

\* new Document(app): no id, no handlers
Document_new(s) ==
    [s EXCEPT !.documents =
        Append(@, [id |-> 0, origin |-> Len(s.documents) + 1, handlers |-> <<>>])]

\* Document.deserialize(doc) of a record of the store
Document_deserialize(s, rec) ==
    [s EXCEPT !.documents =
        Append(@, [id |-> rec.id, origin |-> rec.of, handlers |-> <<>>])]

\* doc.serialize(): the id is part of the result once the document has one
Document_serialize(s, d) ==
    IF s.documents[d].id = 0
    THEN [of |-> s.documents[d].origin]
    ELSE [id |-> s.documents[d].id, of |-> s.documents[d].origin]

\* Signals.on(signal, handler, this)
on(s, d, signal, handler) ==
    [s EXCEPT !.documents[d].handlers = Append(@, <<signal, handler>>)]

\* Signals.off(signal, handler, this): the registrations of that handler go
off(s, d, signal, handler) ==
    [s EXCEPT !.documents[d].handlers =
        SelectSeq(@, LAMBDA h : h # <<signal, handler>>)]

\* the tests 'vertex' in opts || 'fragment' in opts || 'js' in opts || 'programs' in opts
source_opts(opts) == opts \cap {"vertex", "fragment", "js", "programs"} # {}

update_renderer(s) ==
    [s EXCEPT !.renderer_updates = @ + 1, !.owed = FALSE]

\* setTimeout(callback, delay): kind, doc and cb are the callback and what it closes over
setTimeout(s, kind, delay, doc, cb) ==
    [s EXCEPT !.timeout_count = @ + 1,
              !.timeouts = @ \cup {[id |-> s.timeout_count + 1, kind |-> kind,
                                    left |-> delay, doc |-> doc, cb |-> cb]}]

\* clearTimeout(id)
clearTimeout(s, id) ==
    [s EXCEPT !.timeouts = {t \in @ : t.id # id}]

\* a delayed save that leaves the pending timer in place
save_current_doc_with_delay_without_clear(s, cb) ==
    LET pending == \E t \in s.timeouts : t.kind = "save"
        set == setTimeout(s, "save", save_delay, 0, cb)
    IN [set EXCEPT !.save_timeout = set.timeout_count,
                   !.save_bursts = IF pending THEN @ ELSE @ + 1,
                   !.since_save = 0]

save_current_doc_with_delay(s, cb) ==
    LET pending == \E t \in s.timeouts : t.kind = "save"
        cleared == IF s.save_timeout # 0
                   THEN [clearTimeout(s, s.save_timeout) EXCEPT !.save_timeout = 0]
                   ELSE s
        set == setTimeout(cleared, "save", save_delay, 0, cb)
    IN [set EXCEPT !.save_timeout = set.timeout_count,
                   !.save_bursts = IF pending THEN @ ELSE @ + 1,
                   !.since_save = 0]

\* a callback of the store: fn is "none" when the caller gave no function
Callback(fn, arg, cb) == [fn |-> fn, arg |-> arg, cb |-> cb]

\* what a callback of the store is called with
Returned(doc) == [ok |-> TRUE, id |-> doc.id, of |-> doc.of]

ReturnedNull == [ok |-> FALSE, id |-> 0, of |-> 0]

\* a save that always adds
Store_save_adding(s, doc, cb) ==
    [s EXCEPT !.requests = Append(@, [op |-> "add", doc |-> doc, cb |-> cb])]

Store_save(s, doc, cb) ==
    [s EXCEPT !.requests = Append(@, [op |-> IF "id" \notin DOMAIN doc THEN "add" ELSE "put",
                                      doc |-> doc, cb |-> cb])]

\* a property of null is read: the TypeError ends the handler that runs
TypeError(s) == [s EXCEPT !.type_errors = @ + 1]

\* the function a delete button of the popup gives Store.delete, for the item li;
\* removeChild throws when li is no longer a child of content
delete_callback(s, li, doc) ==
    IF ~doc.ok \/ li \notin s.content THEN s
    ELSE LET removed == [s EXCEPT !.content = @ \ {li}]
         IN IF s.document = 0 THEN TypeError(removed)
            ELSE IF s.documents[s.document].id = doc.id
                 THEN [removed EXCEPT !.documents[s.document].id = 0]
                 ELSE removed

\* a call of cb given to Store.delete, or of the function given to Store.save, with result
call_back(s, cb, result) ==
    CASE cb.fn = "log" -> [s EXCEPT !.store_calls[cb.arg].cbs = Append(@, result)]
      [] cb.fn = "delete" -> delete_callback(s, cb.arg, result)
      [] OTHER -> s

\* whether IDBObjectStore.delete accepts the key: it throws a DataError otherwise
valid_key_any(key) == TRUE

valid_key(key) == key # Undefined

\* there is no return after the first call of cb
Store_delete(s, doc, cb) ==
    LET key == IF "id" \in DOMAIN doc THEN doc.id ELSE Undefined
        first == IF "id" \notin DOMAIN doc THEN call_back(s, cb, ReturnedNull) ELSE s
    IN IF valid_key(key)
       THEN [first EXCEPT !.requests = Append(@, [op |-> "delete", doc |-> doc, key |-> key,
                                                  cb |-> cb])]
       ELSE first

serialize_document(s, d) == Document_serialize(s, d)

save_doc(s, d, cb) ==
    Store_save(s, serialize_document(s, d), Callback("_save_doc", d, cb))

save_current_doc(s, cb) == save_doc(s, s.document, cb)

on_document_has_changed(s, opts) ==
    save_current_doc_with_delay(s, IF source_opts(opts) THEN "update_renderer" ELSE "skip")

\* Signals emit of 'changed' on document d: every registered handler runs
RECURSIVE run_changed_handlers(_, _, _)
run_changed_handlers(s, handlers, opts) ==
    IF handlers = <<>> THEN s
    ELSE run_changed_handlers(
             IF Head(handlers) = <<"changed", "_on_document_has_changed">>
             THEN on_document_has_changed(s, opts) ELSE s,
             Tail(handlers), opts)

\* document.update(opts): the document takes the values and emits 'changed'
Document_update(s, d, opts) ==
    IF d = 0 THEN TypeError(s)
    ELSE run_changed_handlers([s EXCEPT !.updates = @ + 1], s.documents[d].handlers, opts)

update_document_by(s, opts) ==
    IF s.loading THEN s ELSE Document_update(s, s.document, opts)

update_document(s, name) ==
    IF s.loading THEN s ELSE update_document_by(s, {name})

\* the editors' value() raises 'changes', which reaches _update_document
on_document_active_program_changed(s) ==
    LET entry == s.loading
        set == [s EXCEPT !.loading = TRUE]
        vertex == update_document(set, "vertex")
        fragment == update_document(vertex, "fragment")
    IN save_current_doc_with_delay([fragment EXCEPT !.loading = entry], "none")

\* the four registrations of _load_doc_real
AppHandlers ==
    << <<"notify-before::active-program", "_on_document_before_active_program_changed">>,
       <<"notify::active-program", "_on_document_active_program_changed">>,
       <<"notify::title", "_on_document_title_changed">>,
       <<"changed", "_on_document_has_changed">> >>

\* the four removals of _load_doc_real: the last names _on_document_changed
off_handlers(s, d) ==
    off(off(off(off(s, d, "notify-before::active-program",
                          "_on_document_before_active_program_changed"),
                    d, "notify::active-program", "_on_document_active_program_changed"),
                d, "notify::title", "_on_document_title_changed"),
            d, "changed", "_on_document_changed")

on_handlers(s, d) ==
    on(on(on(on(s, d, AppHandlers[1][1], AppHandlers[1][2]),
                d, AppHandlers[2][1], AppHandlers[2][2]),
            d, AppHandlers[3][1], AppHandlers[3][2]),
        d, AppHandlers[4][1], AppHandlers[4][2])

\* js_editor.value() raises 'changes' and editor.focus() or canvas.focus() raises
\* 'focus'; both handlers reach _update_document_by
load_doc_real(s, d) ==
    LET removed == IF s.document # 0 THEN off_handlers(s, s.document) ELSE s
        current == [removed EXCEPT !.document = d]
        program == on_document_active_program_changed(current)
        js == update_document(program, "js")
        focus == update_document_by(js, {"active_editor"})
        shown == update_renderer([focus EXCEPT !.loading = FALSE])
        registered == on_handlers(shown, d)
    IN [registered EXCEPT
           !.loads_run = Append(@, [doc |-> d, loading |-> program.loading,
                                    updates |-> focus.updates - s.updates])]

load_doc(s, d) ==
    LET requested == [s EXCEPT !.loading = TRUE, !.load_requests = Append(@, d)]
    IN IF requested.document # 0
       THEN setTimeout(requested, "load", load_delay, d, "none")
       ELSE load_doc_real(requested, d)

new_document(s) ==
    LET created == Document_new(s)
        loaded == load_doc(created, Len(created.documents))
        saved == save_current_doc(loaded, "none")
    IN [saved EXCEPT
           !.new_documents =
               Append(@, [doc |-> Len(created.documents),
                          saved |-> saved.requests[Len(saved.requests)].doc.of])]

\* the function _save_doc gives Store.save
save_doc_callback(s, d, cb, retdoc) ==
    LET copied == IF retdoc.ok THEN [s EXCEPT !.documents[d].id = retdoc.id] ELSE s
    IN CASE cb = "update_renderer" -> update_renderer(copied)
         [] cb = "new_document" -> IF retdoc.ok THEN new_document(copied) ELSE copied
         [] OTHER -> copied

\* the completion of request r calls its callback; Store.save calls it only when
\* it is a function
invoke(s, r, result) ==
    CASE r.cb.fn = "none" -> s
      [] r.cb.fn = "_save_doc" -> save_doc_callback(s, r.cb.arg, r.cb.cb, result)
      [] OTHER -> call_back(s, r.cb, result)

Max(a, b) == IF a > b THEN a ELSE b

Min(a, b) == IF a < b THEN a ELSE b

\* the head request succeeds: the object store changes and onsuccess runs
request_succeeds(s) ==
    LET r == Head(s.requests)
        rest == [s EXCEPT !.requests = Tail(@)]
    IN CASE r.op = "add" ->
              LET key == s.db_key + 1
                  stored == [id |-> key, of |-> r.doc.of]
              IN invoke([rest EXCEPT !.db = @ \cup {stored}, !.db_key = key],
                        r, Returned(stored))
         [] r.op = "put" ->
              invoke([rest EXCEPT !.db = {x \in @ : x.id # r.doc.id} \cup {r.doc},
                                  !.db_key = Max(@, r.doc.id)],
                     r, Returned(r.doc))
         [] r.op = "delete" ->
              invoke([rest EXCEPT !.db = {x \in @ : x.id # r.key}], r,
                     [ok |-> TRUE, id |-> r.key, of |-> r.doc.of])

\* the head request fails: tr.onerror of save, req.onerror of delete
request_fails(s) ==
    invoke([s EXCEPT !.requests = Tail(@)], Head(s.requests), ReturnedNull)

\* requests whose success creates a Document
Reserved ==
    Cardinality({i \in DOMAIN requests : requests[i].cb.cb = "new_document"})

\* a browser that runs the newest of the timers whose delay is over
Due_newest(t) ==
    /\ t \in timeouts
    /\ t.left = 0
    /\ \A u \in timeouts : u.left = 0 => t.id >= u.id

\* the timer that runs next: the oldest of those whose delay is over
Due(t) ==
    /\ t \in timeouts
    /\ t.left = 0
    /\ \A u \in timeouts : u.left = 0 => t.id <= u.id

----------------------------------------------------------------------------
\* The steps of the application on documents

\* _init finds the store empty: load_document(null) calls new_document
InitDocument ==
    /\ document = 0
    /\ documents = <<>>
    /\ SetDocState(new_document(DocState))

\* new_document, called while the application runs
NewDocument ==
    /\ Len(documents) + Reserved < MaxDocs
    /\ Len(requests) < MaxPending
    /\ SetDocState(new_document(DocState))

\* a click on a document of the list: _load_doc(Document.deserialize(doc))
LoadDocument(rec) ==
    /\ Len(documents) + Reserved < MaxDocs
    /\ rec \in db
    /\ LET created == Document_deserialize(DocState, rec)
       IN SetDocState(load_doc(created, Len(created.documents)))

\* the current document emits 'changed' with opts
DocumentChanged(opts) ==
    /\ document # 0
    /\ changes < MaxChanges
    /\ SetDocState(run_changed_handlers(
           [DocState EXCEPT !.changes = @ + 1, !.owed = @ \/ source_opts(opts)],
           documents[document].handlers, opts))

\* the current document emits 'notify::active-program'
ActiveProgramChanged ==
    /\ document # 0
    /\ changes < MaxChanges
    /\ \E i \in DOMAIN documents[document].handlers :
          documents[document].handlers[i] = AppHandlers[2]
    /\ SetDocState(on_document_active_program_changed(
           [DocState EXCEPT !.changes = @ + 1]))

ButtonNewClick ==
    /\ document # 0
    /\ clicks < MaxClicks
    /\ Len(requests) < MaxPending
    /\ Len(documents) + Reserved < MaxDocs
    /\ SetDocState(save_current_doc([DocState EXCEPT !.clicks = @ + 1], "new_document"))

DocTick ==
    /\ timeouts # {}
    /\ \A t \in timeouts : t.left >= step
    /\ SetDocState([DocState EXCEPT
           !.timeouts = {[t EXCEPT !.left = @ - step] : t \in timeouts},
           !.since_save = Min(@ + step, save_delay)])

LoadTimeoutFires ==
    \E t \in timeouts :
        /\ Due(t)
        /\ t.kind = "load"
        /\ SetDocState(load_doc_real(clearTimeout(DocState, t.id), t.doc))

SaveTimeoutFires ==
    \E t \in timeouts :
        /\ Due(t)
        /\ t.kind = "save"
        /\ Len(requests) < MaxPending
        /\ SetDocState(save_current_doc(
               [clearTimeout(DocState, t.id) EXCEPT !.save_timeout = 0,
                                                    !.delayed_saves = @ + 1],
               t.cb))

RequestSucceeds ==
    /\ requests # <<>>
    /\ SetDocState(request_succeeds(DocState))

RequestFails ==
    /\ requests # <<>>
    /\ SetDocState(request_fails(DocState))

ChangeOpts == {{"vertex"}, {"title"}}

Database == RequestSucceeds \/ RequestFails

\* the browser runs a timer whose delay is over, time passes, and the database
\* completes every request
Fairness ==
    /\ WF_vars(DocTick)
    /\ WF_vars(LoadTimeoutFires)
    /\ WF_vars(SaveTimeoutFires)
    /\ WF_vars(Database)

\* Editing: one document, its notifications and the delayed saves they cause
NextSave ==
    \/ InitDocument
    \/ \E opts \in ChangeOpts : DocumentChanged(opts)
    \/ ActiveProgramChanged
    \/ DocTick
    \/ SaveTimeoutFires
    \/ Database

SpecSave == Init /\ [][NextSave]_vars

SpecSaveFair == SpecSave /\ Fairness

\* Switching: documents are created and loaded one after the other
NextLoad ==
    \/ NewDocument
    \/ \E rec \in db : LoadDocument(rec)
    \/ ButtonNewClick
    \/ DocTick
    \/ LoadTimeoutFires
    \/ SaveTimeoutFires
    \/ Database

SpecLoad == Init /\ [][NextLoad]_vars

SpecLoadFair == SpecLoad /\ Fairness

----------------------------------------------------------------------------
\* The store called directly

StoreDocs ==
    {[of |-> o] : o \in 1..MaxKeys}
    \cup {[id |-> k, of |-> o] : k \in 1..MaxKeys, o \in 1..MaxKeys}

\* the entry of store_calls for a call that is about to be made
Called(s, op, doc, given) ==
    [s EXCEPT !.store_calls = Append(@, [op |-> op, doc |-> doc, given |-> given,
                                         requests |-> 0, cbs |-> <<>>])]

\* the entry of the call just made, with the number of requests it issued
Issued(s, before) ==
    [s EXCEPT !.store_calls[Len(s.store_calls)].requests = Len(s.requests) - before]

StoreSave(doc, given) ==
    /\ Len(store_calls) < MaxCalls
    /\ Len(requests) < MaxPending
    /\ SetDocState(Issued(Store_save(Called(DocState, "save", doc, given), doc,
                                     Callback(IF given THEN "log" ELSE "none",
                                              Len(store_calls) + 1, "none")),
                          Len(requests)))

StoreDelete(doc) ==
    /\ Len(store_calls) < MaxCalls
    /\ Len(requests) < MaxPending
    /\ SetDocState(Issued(Store_delete(Called(DocState, "delete", doc, TRUE), doc,
                                       Callback("log", Len(store_calls) + 1, "none")),
                          Len(requests)))

\* a file is imported: Document.fromRemote and _save_doc, without a load
ImportDocument ==
    /\ documents = <<>>
    /\ Len(requests) < MaxPending
    /\ LET created == Document_new(DocState)
       IN SetDocState(save_doc(created, Len(created.documents), "none"))

\* _save_doc of a Document that exists
SaveDoc(d) ==
    /\ d \in DOMAIN documents
    /\ Len(requests) < MaxPending
    /\ SetDocState(save_doc(DocState, d, "none"))

NextStore ==
    \/ \E doc \in StoreDocs, given \in BOOLEAN : StoreSave(doc, given)
    \/ \E doc \in StoreDocs : StoreDelete(doc)
    \/ ImportDocument
    \/ \E d \in DOMAIN documents : SaveDoc(d)
    \/ Database

SpecStore == Init /\ [][NextStore]_vars

----------------------------------------------------------------------------
\* The start of the application: _init opens the store, asks it for the last
\* document and loads what f chooses, while the handlers _init has registered
\* already run

\* bounds: records the store holds when the page is loaded,
\* editor and canvas events, clicks on a delete button of the popup
MaxStored == 2

MaxEvents == 2

MaxDeletes == 2

\* the field of of a snapshot that an earlier page has left in localStorage:
\* it tells the snapshot from the records of the store, whose field of is 0
Unloaded == -2

\* what the object store can hold when the page is loaded: distinct keys and
\* distinct modification times
StoredSets ==
    {{[id |-> k, of |-> 0, modification_time |-> p[k]] : k \in K} :
        K \in SUBSET (1..MaxStored),
        p \in {q \in [1..MaxStored -> 1..MaxStored] :
                  \A i, j \in 1..MaxStored : i # j => q[i] # q[j]}}

\* JSON.stringify of a serialized document, and of null as setItem stores it
JSON_stringify(doc) == [item |-> "document", doc |-> doc]

JSON_null == [item |-> "null"]

\* what localStorage can hold when the page is loaded: nothing, "null", or the
\* snapshot of a document with or without an id
Items ==
    {[item |-> "absent"], JSON_null, JSON_stringify([of |-> Unloaded])}
    \cup {JSON_stringify([id |-> k, of |-> Unloaded]) : k \in 1..MaxStored}

InitStored ==
    \E stored \in StoredSets, item \in Items :
        /\ InitSession(stored, item)
        /\ input = <<>>
        /\ output = <<>>

\* Store.last: the cursor over the index modification_time, direction 'prev'
Store_last(s) ==
    IF s.db = {} THEN ReturnedNull
    ELSE Returned(CHOOSE r \in s.db :
                      \A x \in s.db : x.modification_time <= r.modification_time)

load_document(s, doc) ==
    IF ~doc.ok THEN new_document(s)
    ELSE LET created == Document_deserialize(s, doc)
         IN load_doc(created, Len(created.documents))

\* the function f of the earlier _init: its return follows the inner if
init_f_returning(s, doc) ==
    LET saved == s.localStorage
    IN IF saved.item # "absent" /\ doc.ok
       THEN IF saved.item = "document" /\ "id" \in DOMAIN saved.doc /\ saved.doc.id = doc.id
            THEN LET created == Document_deserialize(s, saved.doc)
                     loaded == load_doc(created, Len(created.documents))
                 IN save_current_doc_with_delay(loaded, "none")
            ELSE s
       ELSE load_document(s, doc)

\* the function f of _init, called with the answer of Store.last
init_f(s, doc) ==
    LET saved == s.localStorage
    IN IF /\ saved.item # "absent"
          /\ doc.ok
          /\ saved.item = "document"
          /\ "id" \in DOMAIN saved.doc
          /\ saved.doc.id = doc.id
       THEN LET created == Document_deserialize(s, saved.doc)
                loaded == load_doc(created, Len(created.documents))
                delayed == save_current_doc_with_delay(loaded, "none")
            IN [delayed EXCEPT !.localStorage = JSON_null]
       ELSE load_document(s, doc)

update_editors(s) == update_document_by(s, {"vertex", "fragment", "js"})

\* window.onbeforeunload: a TypeError in _update_editors ends the handler
onbeforeunload(s) ==
    LET updated == update_editors(s)
    IN IF updated.type_errors > s.type_errors THEN updated
       ELSE IF updated.document = 0 THEN TypeError(updated)
       ELSE [updated EXCEPT !.localStorage =
                JSON_stringify(serialize_document(updated, updated.document))]

\* _init: the store is created, the editors, the canvas and the buttons get their
\* handlers
AppInit ==
    /\ startup = "constructed"
    /\ SetDocState([DocState EXCEPT !.startup = "opening"])

\* Store._onsuccess: the ready function asks for the last document
DatabaseOpens ==
    /\ startup = "opening"
    /\ SetDocState([DocState EXCEPT !.startup = "opened"])

\* Store._onerror logs the event
DatabaseOpenFails ==
    /\ startup = "opening"
    /\ SetDocState([DocState EXCEPT !.startup = "open failed"])

LastAnswers ==
    /\ startup = "opened"
    /\ SetDocState(init_f([DocState EXCEPT !.startup = "answered"], Store_last(DocState)))

\* req.onerror of Store.last calls back with null
LastFails ==
    /\ startup = "opened"
    /\ SetDocState(init_f([DocState EXCEPT !.startup = "last failed"], ReturnedNull))

\* the handlers of _init exist and the page has time for one more event
Listening ==
    /\ startup \notin {"constructed", "unloaded"}
    /\ updates + type_errors < MaxEvents

EditorFocus ==
    /\ Listening
    /\ SetDocState(update_document_by(DocState, {"active_editor"}))

CanvasFocus ==
    /\ Listening
    /\ SetDocState(update_document_by(DocState, {"active_editor"}))

EditorChanges(name) ==
    /\ Listening
    /\ SetDocState(update_document(DocState, name))

CursorActivity ==
    /\ Listening
    /\ SetDocState(update_document_by(DocState, {"active_editor"}))

PageUnload ==
    /\ startup \notin {"constructed", "unloaded"}
    /\ SetDocState(onbeforeunload([DocState EXCEPT !.startup = "unloaded"]))

----------------------------------------------------------------------------
\* The popup that lists the stored documents

\* the function _show_open_popup gives Store.all: the list gets the item that
\* imports files and one item for each record
ShowOpenPopup ==
    /\ document # 0
    /\ content = {}
    /\ SetDocState([DocState EXCEPT !.content = {[import |-> TRUE]} \cup db])

\* the click handler of the delete button of item li
delete_click(s, li) ==
    LET issued == Cardinality(s.content) > 1
        clicked == [s EXCEPT !.delete_clicks =
                       Append(@, [doc |-> li.id, issued |-> issued,
                                  listed |-> Cardinality({x \in s.content :
                                                             "id" \in DOMAIN x})])]
    IN IF issued THEN Store_delete(clicked, li, Callback("delete", li, "none"))
       ELSE clicked

DeleteClick(li) ==
    /\ li \in content
    /\ "id" \in DOMAIN li
    /\ Len(delete_clicks) < MaxDeletes
    /\ Len(requests) < MaxPending
    /\ SetDocState(delete_click(DocState, li))

\* A page from its construction to its unload: the start and the events
NextStartup ==
    \/ AppInit
    \/ DatabaseOpens
    \/ DatabaseOpenFails
    \/ LastAnswers
    \/ LastFails
    \/ EditorFocus
    \/ CanvasFocus
    \/ EditorChanges("vertex")
    \/ CursorActivity
    \/ PageUnload
    \/ startup # "unloaded" /\ DocTick
    \/ startup # "unloaded" /\ SaveTimeoutFires
    \/ startup # "unloaded" /\ Database

SpecStartup == InitStored /\ [][NextStartup]_vars

\* A page that has started, and its popup
NextPopup ==
    \/ AppInit
    \/ DatabaseOpens
    \/ LastAnswers
    \/ ShowOpenPopup
    \/ \E li \in content : DeleteClick(li)
    \/ DocTick
    \/ SaveTimeoutFires
    \/ Database

SpecPopup == InitStored /\ [][NextPopup]_vars
----------------------------------------------------------------------------
\* Properties of the catalogue

\* The statements of Script that have been executed
Executed == 1..(IF pc > PcOperators THEN pc - PcOperators - 1 ELSE 0)

\* The type tokens of a prototype's parameters, and of its return type
ParamToks(f) ==
    [k \in DOMAIN f.header.parameters |-> f.header.parameters[k].type.type.id]

RetTok(f) == f.header.type.type.type.type.id

FunctionName(f) == f.header.name.text

\* The type slots of a rule's params array (the entries at even JavaScript indices)
RuleSlots(r) == [k \in 1..(Len(r.params) \div 2) |-> r.params[2 * k - 1]]

OperatorSignature(o) ==
    IF "lhs" \in DOMAIN o THEN bin_signature(o) ELSE unary_signature(o)

\* C1: once the catalogue is built, for every N in {2,3,4} OperatorMap resolves
\* "*(matN,vecN)" to an entry returning vecN and "*(vecN,matN)" to an entry that
\* also returns vecN.
C1_MatrixVectorProductReturnsVector ==
    pc = PcDone =>
        \A n \in {"2", "3", "4"} :
            LET mv == "*(mat" \o n \o ",vec" \o n \o ")"
                vm == "*(vec" \o n \o ",mat" \o n \o ")"
            IN /\ mv \in DOMAIN OperatorMap
               /\ Operators[OperatorMap[mv]].ret.name = "vec" \o n
               /\ vm \in DOMAIN OperatorMap
               /\ Operators[OperatorMap[vm]].ret.name = "vec" \o n

\* C2: registering an operator under a signature OperatorMap already holds is a
\* no-op, so Operators holds exactly one entry per key of OperatorMap and each key
\* refers to the entry registered first under it.
C2_OperatorRegistrationIdempotent ==
    /\ Len(Operators) = Cardinality(DOMAIN OperatorMap)
    /\ \A s \in DOMAIN OperatorMap :
          \A k \in 1..Len(Operators) :
              OperatorSignature(Operators[k]) = s => OperatorMap[s] <= k

\* The arguments with which prototype f was registered
RegisteredParams(f) ==
    [j \in 1..(2 * Len(f.header.parameters)) |->
        IF j % 2 = 1 THEN [type |-> f.header.parameters[(j + 1) \div 2].type]
        ELSE f.header.parameters[j \div 2].name.text]

\* C3: define_builtin_function is idempotent per signature. Functions holds exactly
\* one prototype per key of FunctionMap, each key refers to the prototype registered
\* under it, and registering any signature again adds nothing, leaves FunctionMap
\* as it is and returns no definition; the rule min(gentype,float) leaves the
\* min(float,float) of the rule min(gentype,gentype) in place.
C3_FunctionRegistrationIdempotent ==
    /\ Len(Functions) = Cardinality(DOMAIN FunctionMap)
    /\ \A i \in 1..Len(Functions) :
          /\ signature(Functions[i].header) \in DOMAIN FunctionMap
          /\ FunctionMap[signature(Functions[i].header)] = i
          /\ LET f == Functions[i]
                 again == define_builtin_function_decl(FunctionsState,
                              f.header.type.type, FunctionName(f), RegisteredParams(f))
             IN /\ again.Functions = Functions
                /\ again.FunctionMap = FunctionMap
                /\ again.returned = 0
    /\ \A k \in Executed :
          (Script[k].kind = "gentype" /\ Script[k].name = "min"
           /\ RuleSlots(Script[k]) = <<Null, "T_FLOAT">>) =>
              /\ Cardinality({i \in 1..Len(Functions) :
                     signature(Functions[i].header) = "min(float,float)"}) = 1
              /\ FunctionMap["min(float,float)"] < FunctionMap["min(vec2,vec2)"]
              /\ FunctionMap["min(vec2,vec2)"] < FunctionMap["min(vec2,float)"]

\* the second min rule has run and found min(float,float) registered
C3_Witness ==
    /\ pc = PcDone
    /\ "min(float,float)" \in DOMAIN FunctionMap
    /\ "min(vec2,float)" \in DOMAIN FunctionMap
    /\ FunctionMap["min(float,float)"] < FunctionMap["min(vec2,vec2)"]
    /\ FunctionMap["min(vec2,vec2)"] < FunctionMap["min(vec2,float)"]

GenericRule(r) == r.kind \in {"gentype", "mat"}

\* the concrete types a generic rule ranges over
RuleFamily(r) ==
    IF r.kind = "gentype" THEN {"T_FLOAT", "T_VEC2", "T_VEC3", "T_VEC4"}
    ELSE {"T_MAT2", "T_MAT3", "T_MAT4"}

\* the names registered by a gentype rule with one parameter, which is generic
SingleGenericNames ==
    {Script[k].name : k \in {m \in Executed : /\ Script[m].kind = "gentype"
                                              /\ RuleSlots(Script[m]) = <<Null>>}}

\* C4: every function registered through define_builtin_gentype_function with a
\* single generic parameter has exactly one entry for each of float, vec2, vec3 and
\* vec4, and no entry of that name takes a parameter of any other type.
C4_GentypeExpansionComplete ==
    \A n \in SingleGenericNames :
        LET named == {i \in 1..Len(Functions) : FunctionName(Functions[i]) = n}
            unary == {i \in named : Len(Functions[i].header.parameters) = 1}
        IN /\ Cardinality(unary) = 4
           /\ {ParamToks(Functions[i])[1] : i \in unary}
                  = {"T_FLOAT", "T_VEC2", "T_VEC3", "T_VEC4"}
           /\ \A i \in named :
                  \A j \in DOMAIN Functions[i].header.parameters :
                      ParamToks(Functions[i])[j] \in {"T_FLOAT", "T_VEC2", "T_VEC3", "T_VEC4"}

\* sin and the one-parameter atan are registered for all four types
C4_Witness ==
    /\ pc = PcDone
    /\ "sin" \in SingleGenericNames
    /\ "atan" \in SingleGenericNames
    /\ {"sin(float)", "sin(vec4)", "atan(vec3)", "atan(vec3,vec3)"} \subseteq DOMAIN FunctionMap

\* prototype f is what generic rule r produces for the concrete type g
ExpansionOf(f, r, g) ==
    /\ FunctionName(f) = r.name
    /\ Len(ParamToks(f)) = Len(RuleSlots(r))
    /\ \A j \in DOMAIN ParamToks(f) :
          ParamToks(f)[j] = IF RuleSlots(r)[j] = Null THEN g ELSE RuleSlots(r)[j]
    /\ RetTok(f) = IF r.rettype = Null THEN g ELSE r.rettype

\* C5: every entry produced by generic expansion carries one concrete type g in all
\* its generic parameter slots and in a generic return slot, and the fixed type of
\* the rule in every explicitly typed slot; every rule has such an entry for each g.
C5_GenericSlotsShareOneType ==
    /\ \A i \in 1..Len(Functions) :
          (\E k \in Executed : GenericRule(Script[k])
                                 /\ Script[k].name = FunctionName(Functions[i])) =>
              \E k \in Executed :
                  /\ GenericRule(Script[k])
                  /\ \E g \in RuleFamily(Script[k]) : ExpansionOf(Functions[i], Script[k], g)
    /\ \A k \in Executed :
          GenericRule(Script[k]) =>
              \A g \in RuleFamily(Script[k]) :
                  \E i \in 1..Len(Functions) : ExpansionOf(Functions[i], Script[k], g)
    /\ pc = PcDone =>
          /\ RetTok(Functions[FunctionMap["mix(vec3,vec3,float)"]]) = "T_VEC3"
          /\ RetTok(Functions[FunctionMap["length(vec3)"]]) = "T_FLOAT"
          /\ RetTok(Functions[FunctionMap["matrixCompMult(mat2,mat2)"]]) = "T_MAT2"

\* the rules with a fixed slot, a fixed return type and the mat family have run
C5_Witness ==
    /\ pc = PcDone
    /\ {"mix(vec3,vec3,float)", "length(vec3)", "matrixCompMult(mat2,mat2)",
        "smoothstep(float,float,vec4)"} \subseteq DOMAIN FunctionMap

\* the member of a relational-vector family at arity index i (1, 2, 3)
FamilyMember(fam, i) ==
    CASE fam = "bvec" -> <<"T_BVEC2", "T_BVEC3", "T_BVEC4">>[i]
      [] fam = "vec" -> <<"T_VEC2", "T_VEC3", "T_VEC4">>[i]
      [] fam = "ivec" -> <<"T_IVEC2", "T_IVEC3", "T_IVEC4">>[i]
      [] OTHER -> fam

\* prototype f is what relvec rule r produces at arity index i
RelvecExpansionOf(f, r, i) ==
    /\ FunctionName(f) = r.name
    /\ Len(ParamToks(f)) = Len(RuleSlots(r))
    /\ \A j \in DOMAIN ParamToks(f) : ParamToks(f)[j] = FamilyMember(RuleSlots(r)[j], i)
    /\ RetTok(f) = FamilyMember(r.rettype, i)

RelvecRules == {k \in Executed : Script[k].kind = "relvec"}

\* C6: each relvec rule expands to exactly three entries, one per arity index, with
\* every family name replaced by the family's member at that index; no entry mixes
\* arities, and a return type that is no family name is kept.
C6_RelvecLockstepExpansion ==
    /\ \A k \in RelvecRules :
          \A i \in 1..3 :
              Cardinality({m \in 1..Len(Functions) :
                              RelvecExpansionOf(Functions[m], Script[k], i)}) = 1
    /\ Cardinality({m \in 1..Len(Functions) :
                       \E k \in RelvecRules : Script[k].name = FunctionName(Functions[m])})
          = 3 * Cardinality(RelvecRules)
    /\ \A m \in 1..Len(Functions) :
          (\E k \in RelvecRules : Script[k].name = FunctionName(Functions[m])) =>
              LET ps == Functions[m].header.parameters
                  ret == Functions[m].header.type.type.type.type
              IN /\ \A a, b \in DOMAIN ps :
                        ps[a].type.type.length = ps[b].type.type.length
                 /\ ret.id = "T_BOOL" \/ ret.length = ps[1].type.type.length
    /\ pc = PcDone =>
          /\ RetTok(Functions[FunctionMap["lessThan(vec2,vec2)"]]) = "T_BVEC2"
          /\ RetTok(Functions[FunctionMap["lessThan(vec3,vec3)"]]) = "T_BVEC3"
          /\ RetTok(Functions[FunctionMap["lessThan(vec4,vec4)"]]) = "T_BVEC4"
          /\ RetTok(Functions[FunctionMap["any(bvec3)"]]) = "T_BOOL"
          /\ RetTok(Functions[FunctionMap["all(bvec4)"]]) = "T_BOOL"
          /\ "lessThan(vec2,vec3)" \notin DOMAIN FunctionMap

\* the relvec rules over vec, ivec and bvec and with a bool result have run
C6_Witness ==
    /\ pc = PcDone
    /\ Cardinality(RelvecRules) > 0
    /\ {"lessThan(ivec4,ivec4)", "notEqual(bvec2,bvec2)", "any(bvec2)", "not(bvec4)"}
           \subseteq DOMAIN FunctionMap

\* C7: the scalar broadcast pairs are complete. For every op in {+,-,*,/} and every
\* T in {vec2,vec3,vec4,mat2,mat3,mat4} OperatorMap holds op(float,T) and
\* op(T,float), each returning T; for every T in {ivec2,ivec3,ivec4} it holds
\* op(int,T) and op(T,int), each returning T.
C7_ScalarBroadcastComplete ==
    pc = PcDone =>
        \A op \in {"+", "-", "*", "/"} :
            /\ \A t \in {"vec2", "vec3", "vec4", "mat2", "mat3", "mat4"} :
                  \A s \in {op \o "(float," \o t \o ")", op \o "(" \o t \o ",float)"} :
                      /\ s \in DOMAIN OperatorMap
                      /\ Operators[OperatorMap[s]].ret.name = t
            /\ \A t \in {"ivec2", "ivec3", "ivec4"} :
                  \A s \in {op \o "(int," \o t \o ")", op \o "(" \o t \o ",int)"} :
                      /\ s \in DOMAIN OperatorMap
                      /\ Operators[OperatorMap[s]].ret.name = t

OperatorRule(r) == r.kind \in {"binop", "unaryop"}

\* the number of entries the operator statements before statement k have pushed
OperatorsBefore(k) ==
    Cardinality(UNION {{<<m, i, j>> : i \in 1..Len(Script[m].optypes),
                                      j \in 1..Len(Script[m].gens)} :
                       m \in {n \in 1..(k - 1) : OperatorRule(Script[n])}})

\* operator entry o is what operator rule r produces for operator op and type g
OperatorExpansionOf(o, r, op, g) ==
    /\ o.op = op
    /\ o.ret.id = IF r.rettype = Null THEN g ELSE r.rettype
    /\ r.kind = "unaryop" => o.expr.id = (IF r.expr = Null THEN g ELSE r.expr)
    /\ r.kind = "binop" =>
          /\ o.lhs.id = IF r.lhs = Null THEN g ELSE r.lhs
          /\ o.rhs.id = IF r.rhs = Null THEN g ELSE r.rhs
          /\ (r.lhs = Null /\ r.rhs = Null) =>
                /\ o.lhs = o.rhs
                /\ o.lhs.id = g
                /\ r.rettype = Null => o.ret = o.lhs

C9_BuiltinTypeClassification ==
    pc > PcTypes =>
        /\ Len(Types) = 18
        /\ \A i \in 1..Len(Types) :
              LET t == Types[i].type.type
                  kinds == Cardinality({c \in {"scalar", "vec", "mat"} :
                               \/ c = "scalar" /\ t.is_scalar
                               \/ c = "vec" /\ t.is_vec
                               \/ c = "mat" /\ t.is_mat})
                  elems == Cardinality({c \in {"int", "float", "bool"} :
                               \/ c = "int" /\ t.is_int
                               \/ c = "float" /\ t.is_float
                               \/ c = "bool" /\ t.is_bool})
                  bare == t.name \in {"void", "sampler2D", "samplerCube"}
              IN /\ kinds <= 1
                 /\ t.is_scalar => t.length = 1
                 /\ \A n \in 2..4 :
                       t.name \in {"vec" \o ToString(n), "ivec" \o ToString(n),
                                   "bvec" \o ToString(n), "mat" \o ToString(n)}
                           => t.length = n
                 /\ t.length = 0 <=> bare
                 /\ elems = IF bare THEN 0 ELSE 1
        /\ \A i, j \in 1..Len(Types) :
              Types[i].type.type.name = Types[j].type.type.name => i = j

\* the types are created: a scalar, a bool vector, a matrix and a sampler among them
C9_Witness ==
    /\ pc > PcTypes
    /\ TypeMap["T_BOOL"].type.type.is_scalar
    /\ TypeMap["T_BVEC4"].type.type.length = 4
    /\ TypeMap["T_MAT3"].type.type.is_float
    /\ TypeMap["T_SAMPLERCUBE"].type.type.length = 0

\* the functions that register builtins
RegistrationHelpers ==
    {"define_builtin_function", "define_builtin_function_gen",
     "define_builtin_gentype_function", "define_builtin_mat_function",
     "define_builtin_relvec_function", "define_builtin_bin_operator_gen",
     "define_builtin_unary_operator_gen", "Operator"}

----------------------------------------------------------------------------
\* The relink debounce of the application

Pending == IF parsed_timeout = 0 THEN 0 ELSE 1

BothParsed == vertex_parsed # 0 /\ fragment_parsed # 0

CurrentLink == link(EditorAst(vertex_parsed), EditorAst(fragment_parsed))

\* C11 as stated: at most one relink timer is pending, and every burst of
\* notifications (each less than 50 ms after the one before) has caused exactly one
\* link run once its timer is gone.
C11_EveryBurstLinksOnce ==
    /\ Cardinality(timers) <= 1
    /\ link_runs + Pending = bursts

\* C11, amended: at most one relink timer is pending, the one _parsed_timeout names;
\* every burst of notifications causes exactly one run of the timer's callback, 50 ms
\* after the last notification of the burst; the callback links exactly once when
\* both editors hold a parse result at that moment, with the results they hold then,
\* and does not link otherwise.
C11_RelinkDebounced ==
    /\ [](/\ timers = (IF parsed_timeout = 0 THEN {} ELSE {parsed_timeout})
          /\ callbacks + Pending = bursts
          /\ link_runs <= callbacks)
    /\ [][callbacks' # callbacks =>
             /\ callbacks' = callbacks + 1
             /\ elapsed = parsed_delay
             /\ parsed_timeout' = 0
             /\ IF BothParsed
                THEN /\ link_runs' = link_runs + 1
                     /\ vertex_external_errors' = CurrentLink.vertex
                     /\ fragment_external_errors' = CurrentLink.fragment
                ELSE /\ link_runs' = link_runs
                     /\ UNCHANGED <<vertex_external_errors, fragment_external_errors>>]_vars
    /\ [][link_runs' # link_runs => callbacks' # callbacks]_vars

\* two notifications less than 50 ms apart were followed by one callback, which linked
C11_Witness ==
    /\ bursts = 1
    /\ timer_count = 2
    /\ callbacks = 1
    /\ link_runs = 1
    /\ parsed_timeout = 0

\* C12: a link run happens only when both editors hold a parse result, and the step
\* that runs it hands the vertex diagnostics of the result to the vertex editor and
\* the fragment diagnostics to the fragment editor; no other step hands an editor
\* link diagnostics.
C12_LinkDeliversBothStages ==
    [][/\ link_runs' # link_runs =>
             /\ BothParsed
             /\ vertex_external_errors' = CurrentLink.vertex
             /\ fragment_external_errors' = CurrentLink.fragment
       /\ (\/ vertex_external_errors' # vertex_external_errors
           \/ fragment_external_errors' # fragment_external_errors) =>
             link_runs' # link_runs]_vars

\* a link run of a vec3 varying against a vec2 one gave each editor its own diagnostic
C12_Witness ==
    /\ link_runs > 0
    /\ vertex_parsed = 1
    /\ fragment_parsed = 2
    /\ \E d \in vertex_external_errors : d.type = "vec3" /\ d.other = "vec2"
    /\ \E d \in fragment_external_errors : d.type = "vec2" /\ d.other = "vec3"

----------------------------------------------------------------------------
\* The linker's diagnostics

Linked == DOMAIN input = {"vertex", "fragment"} /\ Len(output) = 1

\* the names an AST declares, complete or not
DeclaredNames(ast) == {ast[k].name : k \in DOMAIN ast}

\* the diagnostics of a list that name the varying n
About(list, n) == {d \in list : d.name = n}

\* C14: link(V, F) returns no vertex and no fragment diagnostic whenever the two
\* stages declare the same complete top-level varyings with the same resolved types.
C14_MatchingInterfaceIsClean ==
    Linked =>
        LET vv == varyings(input.vertex)
            fv == varyings(input.fragment)
        IN (/\ DOMAIN vv = DOMAIN fv
            /\ \A n \in DOMAIN vv : vv[n].type = fv[n].type) =>
               /\ output[1].vertex = {}
               /\ output[1].fragment = {}

\* two matching varyings, declared in the two stages in a different order
C14_Witness ==
    /\ Linked
    /\ DOMAIN varyings(input.vertex) = VaryingNames
    /\ DOMAIN varyings(input.fragment) = VaryingNames
    /\ \A n \in VaryingNames :
          /\ varyings(input.vertex)[n].type = varyings(input.fragment)[n].type
          /\ varyings(input.vertex)[n].location # varyings(input.fragment)[n].location
    /\ output[1] = [vertex |-> {}, fragment |-> {}]

\* C15: a varying declared complete in both stages with different resolved types has
\* exactly one diagnostic in the vertex list and exactly one in the fragment list,
\* each a mismatch anchored at the stage's own declaration that names the varying and
\* the two types; a varying with equal types has none in either list.
C15_TypeMismatchOncePerStage ==
    Linked =>
        LET vv == varyings(input.vertex)
            fv == varyings(input.fragment)
        IN \A n \in DOMAIN vv \cap DOMAIN fv :
              IF vv[n].type # fv[n].type
              THEN /\ About(output[1].vertex, n) =
                          {[severity |-> "error", kind |-> "mismatch", name |-> n,
                            location |-> vv[n].location,
                            type |-> vv[n].type, other |-> fv[n].type]}
                   /\ About(output[1].fragment, n) =
                          {[severity |-> "error", kind |-> "mismatch", name |-> n,
                            location |-> fv[n].location,
                            type |-> fv[n].type, other |-> vv[n].type]}
              ELSE /\ About(output[1].vertex, n) = {}
                   /\ About(output[1].fragment, n) = {}

\* vColor is a vec3 at line 2 of the vertex stage and a vec2 at line 1 of the
\* fragment stage, and vFactor matches
C15_Witness ==
    /\ Linked
    /\ DOMAIN varyings(input.vertex) = VaryingNames
    /\ DOMAIN varyings(input.fragment) = VaryingNames
    /\ varyings(input.vertex)["vColor"].type = "vec3"
    /\ varyings(input.vertex)["vColor"].location.line = 2
    /\ varyings(input.fragment)["vColor"].type = "vec2"
    /\ varyings(input.fragment)["vColor"].location.line = 1
    /\ Cardinality(output[1].vertex) = 1
    /\ Cardinality(output[1].fragment) = 1

\* C16: a varying only the fragment stage declares has one diagnostic, of severity
\* error, in the fragment list and none in the vertex list; a varying only the vertex
\* stage declares has one, of severity warning, in the vertex list and none in the
\* fragment list; this holds for every such name of the two ASTs.
C16_AbsenceCasesDistinguished ==
    Linked =>
        LET vv == varyings(input.vertex)
            fv == varyings(input.fragment)
        IN /\ \A n \in DOMAIN fv \ DeclaredNames(input.vertex) :
                 /\ About(output[1].fragment, n) =
                        {[severity |-> "error", kind |-> "absent", name |-> n,
                          location |-> fv[n].location, type |-> fv[n].type,
                          other |-> Null]}
                 /\ About(output[1].vertex, n) = {}
           /\ \A n \in DOMAIN vv \ DeclaredNames(input.fragment) :
                 /\ About(output[1].vertex, n) =
                        {[severity |-> "warning", kind |-> "absent", name |-> n,
                          location |-> vv[n].location, type |-> vv[n].type,
                          other |-> Null]}
                 /\ About(output[1].fragment, n) = {}

\* the vertex stage declares only vColor and the fragment stage only vFactor
C16_Witness ==
    /\ Linked
    /\ DOMAIN varyings(input.vertex) = {"vColor"}
    /\ DeclaredNames(input.vertex) = {"vColor"}
    /\ DOMAIN varyings(input.fragment) = {"vFactor"}
    /\ DeclaredNames(input.fragment) = {"vFactor"}
    /\ \E d \in output[1].vertex : d.severity = "warning" /\ d.name = "vColor"
    /\ \E d \in output[1].fragment : d.severity = "error" /\ d.name = "vFactor"

\* the link of the same two ASTs with the stages exchanged
SwappedLink == link(input.fragment, input.vertex)

\* a list with the severity of every absence diagnostic exchanged
Exchanged(list) ==
    {[d EXCEPT !.severity = IF d.kind # "absent" THEN @
                            ELSE IF @ = "error" THEN "warning" ELSE "error"] :
        d \in list}

\* C17 as stated: linking with the two ASTs exchanged yields the same diagnostics
\* with the vertex and the fragment list exchanged.
C17_LinkerSymmetry ==
    Linked =>
        /\ SwappedLink.vertex = output[1].fragment
        /\ SwappedLink.fragment = output[1].vertex

\* C17, amended: linking with the two ASTs exchanged yields the two lists exchanged,
\* except that every absence diagnostic takes the severity of the stage its AST is
\* now given as (warning in the vertex list, error in the fragment list); the lists
\* are exchanged unaltered whenever neither holds an absence diagnostic.
C17_LinkerSymmetryUpToAbsenceSeverity ==
    Linked =>
        /\ SwappedLink.vertex = Exchanged(output[1].fragment)
        /\ SwappedLink.fragment = Exchanged(output[1].vertex)
        /\ (\A d \in output[1].vertex \cup output[1].fragment : d.kind # "absent") =>
              /\ SwappedLink.vertex = output[1].fragment
              /\ SwappedLink.fragment = output[1].vertex

\* a mismatch on vColor and a vFactor that only the vertex stage declares
C17_Witness ==
    /\ Linked
    /\ \E d \in output[1].vertex : d.kind = "mismatch" /\ d.name = "vColor"
    /\ \E d \in output[1].fragment : d.kind = "mismatch" /\ d.name = "vColor"
    /\ \E d \in output[1].vertex : d.kind = "absent" /\ d.name = "vFactor"
    /\ \E d \in SwappedLink.fragment :
          d.kind = "absent" /\ d.name = "vFactor" /\ d.severity = "error"

----------------------------------------------------------------------------
\* Locating JavaScript runtime errors

Handled == "e" \in DOMAIN input /\ Len(output) = 1

\* the location the first line of one of the two known shapes stands for
ExpectedLocation ==
    LET known == {i \in 1..Len(input.shape) : input.shape[i].kind # "other"}
        d == input.shape[CHOOSE i \in known : \A j \in known : i <= j]
    IN IF known = {} THEN <<>>
       ELSE <<[line |-> IF d.kind = "anon" THEN d.l - 1 ELSE d.l, column |-> d.c]>>

----------------------------------------------------------------------------
\* The dump utility

\* s ends with suf
EndsWith(s, suf) ==
    /\ Len(suf) <= Len(s)
    /\ \A i \in 1..Len(suf) : s[Len(s) - Len(suf) + i] = suf[i]

\* C20: has_suffix(s, suf) is true exactly when s ends with suf, so never when s is
\* shorter than suf; for every path argument the utility parses the file as VERTEX
\* exactly when the path ends with '.glslv', as FRAGMENT otherwise, and writes to
\* the path followed by '.ast'.
C20_DumpAstSuffixAndStage ==
    /\ ("suf" \in DOMAIN input /\ Len(output) = 1) =>
          /\ output[1] = EndsWith(input.s, input.suf)
          /\ Len(input.s) < Len(input.suf) => output[1] = FALSE
    /\ ("argv" \in DOMAIN input /\ Len(output) = 1) =>
          /\ Len(output[1].files) = Len(input.argv)
          /\ \A i \in 1..Len(input.argv) :
                LET f == output[1].files[i]
                    path == input.argv[i]
                IN /\ f.read = path
                   /\ f.write = path \o <<".", "a", "s", "t">>
                   /\ f.stage = "VERTEX" <=>
                         EndsWith(path, <<".", "g", "l", "s", "l", "v">>)
                   /\ f.stage \in {"VERTEX", "FRAGMENT"}

\* a vertex source and the dump of another vertex source, which is parsed as a
\* fragment source
C20_Witness ==
    /\ "argv" \in DOMAIN input
    /\ Len(output) = 1
    /\ Len(input.argv) = 2
    /\ output[1].files[1].stage = "VERTEX"
    /\ output[1].files[2].stage = "FRAGMENT"
    /\ EndsWith(input.argv[2], <<".", "a", "s", "t">>)

\* ---------------------------------------------------------------------------
\* Builtin nodes: completeness and location
\* ---------------------------------------------------------------------------

\* the tokens of a builtin type declaration
TypeDeclTokens(decl) == {decl.type.token, decl.semi}

\* the tokens of a builtin function prototype
FunctionProtoTokens(f) ==
    {f.semi, f.header.type.token, f.header.name,
     f.header.left_paren, f.header.right_paren}
    \cup {f.header.parameters[k].name : k \in DOMAIN f.header.parameters}
    \cup {f.header.parameters[k].type.token : k \in DOMAIN f.header.parameters}

\* C21: every node of the catalogue is complete and located in the builtin
\* range: each type declaration, its ast Type and its builtin Type, each
\* function prototype, its header, the header's return type and every
\* parameter declaration have incomplete = FALSE, and every token of these
\* nodes carries a BuiltinRange.
C21_BuiltinNodesComplete ==
    /\ \A i \in DOMAIN Types :
          /\ ~Types[i].incomplete
          /\ ~Types[i].type.incomplete
          /\ ~Types[i].type.type.incomplete
          /\ \A tok \in TypeDeclTokens(Types[i]) : tok.location = BuiltinRange
    /\ \A i \in DOMAIN Functions :
          /\ ~Functions[i].incomplete
          /\ ~Functions[i].header.incomplete
          /\ ~Functions[i].header.type.incomplete
          /\ \A k \in DOMAIN Functions[i].header.parameters :
                /\ ~Functions[i].header.parameters[k].incomplete
                /\ ~Functions[i].header.parameters[k].type.incomplete
          /\ \A tok \in FunctionProtoTokens(Functions[i]) : tok.location = BuiltinRange

\* the catalogue is loaded and holds a prototype with three parameters
C21_Witness ==
    /\ pc = PcDone
    /\ Len(Types) = 18
    /\ \E i \in DOMAIN Functions : Len(Functions[i].header.parameters) = 3

----------------------------------------------------------------------------
\* Delayed saves and the renderer

\* C22 as stated: every 'changed' notification whose options include vertex,
\* fragment, js or programs is eventually followed by a call of _update_renderer,
\* whatever notifications and delayed-save requests arrive before the save timer
\* fires.
C22_SourceChangeUpdatesRenderer == owed ~> ~owed

\* the records of the store that hold document o
RecordsOf(o) == {rec \in db : rec.of = o}

\* C23 as stated: a document that was never saved is stored in at most one record,
\* also when several saves of it are issued before the first save's success
\* callback has given it its id.
C23_OneRecordPerDocument ==
    \A d \in DOMAIN documents : Cardinality(RecordsOf(documents[d].origin)) <= 1

----------------------------------------------------------------------------
\* The store

\* whether the request of the direct call c is still pending
PendingCall(c) ==
    \E i \in DOMAIN requests :
        requests[i].cb.fn \in {"log", "none"} /\ requests[i].cb.arg = c

HasId(doc) == "id" \in DOMAIN doc

\* the result the callback of call c was given last
LastResult(c) == store_calls'[c].cbs[Len(store_calls'[c].cbs)]

\* C24: Store.delete calls its callback exactly once per call: for a document
\* without id it calls cb(store, null) and issues no database request; for a
\* document with id it issues one request and calls back once when the request
\* completes, with the document when the request succeeded (the record is gone then)
\* and with null when it failed (the store is as it was).
C24_DeleteCallsBackOnce ==
    /\ [](\A c \in DOMAIN store_calls :
             store_calls[c].op = "delete" =>
                IF HasId(store_calls[c].doc)
                THEN /\ store_calls[c].requests = 1
                     /\ Len(store_calls[c].cbs) = (IF PendingCall(c) THEN 0 ELSE 1)
                ELSE /\ store_calls[c].requests = 0
                     /\ ~PendingCall(c)
                     /\ store_calls[c].cbs = <<ReturnedNull>>)
    /\ [][\A c \in DOMAIN store_calls :
             (store_calls[c].op = "delete" /\ store_calls'[c].cbs # store_calls[c].cbs) =>
                IF LastResult(c).ok
                THEN /\ LastResult(c) = Returned(store_calls[c].doc)
                     /\ \A rec \in db' : rec.id # store_calls[c].doc.id
                ELSE /\ LastResult(c) = ReturnedNull
                     /\ db' = db]_vars

\* a delete without id and a delete with id that succeeded have both called back once
C24_Witness ==
    /\ requests = <<>>
    /\ \E c \in DOMAIN store_calls :
          /\ store_calls[c].op = "delete"
          /\ ~HasId(store_calls[c].doc)
          /\ Len(store_calls[c].cbs) = 1
    /\ \E c \in DOMAIN store_calls :
          /\ store_calls[c].op = "delete"
          /\ HasId(store_calls[c].doc)
          /\ store_calls[c].cbs = <<Returned(store_calls[c].doc)>>

\* the request of a save is an add when the document has no id, else a put
SaveRequestOp(r) == r.op = (IF HasId(r.doc) THEN "put" ELSE "add")

\* the head request is a save by _save_doc and this step completes it
SaveDocCompletes ==
    /\ requests # <<>>
    /\ requests' = Tail(requests)
    /\ Head(requests).cb.fn = "_save_doc"

\* C25: Store.save issues one request, an add for a document without id and a put
\* for a document with id; a callback that was given is called exactly once when the
\* request completes, with the document (carrying the generated id after an add, and
\* stored under that id) on success and with null on an error, which leaves the store
\* as it was; a callback that was not given is never called.  When an add issued by
\* _save_doc succeeds, the Document gets the generated id, and every later _save_doc
\* of a Document that has an id issues a put under that id.
C25_SaveAddsOrPutsAndCallsBackOnce ==
    /\ [](/\ \A i \in DOMAIN requests :
                requests[i].op \in {"add", "put"} => SaveRequestOp(requests[i])
          /\ \A c \in DOMAIN store_calls :
                store_calls[c].op = "save" =>
                   /\ store_calls[c].requests = 1
                   /\ Len(store_calls[c].cbs) =
                         (IF store_calls[c].given /\ ~PendingCall(c) THEN 1 ELSE 0))
    /\ [][\A c \in DOMAIN store_calls :
             (store_calls[c].op = "save" /\ store_calls'[c].cbs # store_calls[c].cbs) =>
                IF LastResult(c).ok
                THEN /\ LastResult(c).of = store_calls[c].doc.of
                     /\ [id |-> LastResult(c).id, of |-> LastResult(c).of] \in db'
                     /\ IF HasId(store_calls[c].doc)
                        THEN LastResult(c).id = store_calls[c].doc.id /\ db_key' >= db_key
                        ELSE LastResult(c).id = db_key' /\ db_key' = db_key + 1
                ELSE /\ LastResult(c) = ReturnedNull
                     /\ db' = db
                     /\ db_key' = db_key]_vars
    /\ [][(SaveDocCompletes /\ Head(requests).op = "add" /\ db_key' # db_key) =>
             /\ documents'[Head(requests).cb.arg].id = db_key'
             /\ [id |-> db_key', of |-> documents[Head(requests).cb.arg].origin] \in db']_vars
    /\ [][\A d \in DOMAIN documents :
             (documents[d].id # 0 /\ Len(requests') > Len(requests)
                  /\ requests'[Len(requests')].cb.fn = "_save_doc"
                  /\ requests'[Len(requests')].cb.arg = d) =>
                /\ requests'[Len(requests')].op = "put"
                /\ requests'[Len(requests')].doc.id = documents[d].id]_vars

\* an imported document was added and saved again: its one record is the one the
\* second save put, and a direct save with a callback has called back once
C25_Witness ==
    /\ requests = <<>>
    /\ documents # <<>>
    /\ documents[1].id # 0
    /\ Cardinality(RecordsOf(documents[1].origin) \cap {rec \in db : rec.id = documents[1].id}) = 1
    /\ \E c \in DOMAIN store_calls :
          /\ store_calls[c].op = "save"
          /\ store_calls[c].given
          /\ ~HasId(store_calls[c].doc)
          /\ Len(store_calls[c].cbs) = 1
          /\ store_calls[c].cbs[1].ok

----------------------------------------------------------------------------
\* Loading documents

\* C26 as stated: _loading is true during every run of _load_doc_real until the
\* run resets it, so no editor event raised while the contents are replaced
\* updates the document, also when a load is requested less than 200 ms after
\* another.
C26_LoadingDuringEveryLoad ==
    \A i \in DOMAIN loads_run :
        /\ loads_run[i].loading
        /\ loads_run[i].updates = 0

\* how often handler h is registered on Document d
Registrations(d, h) ==
    Cardinality({i \in DOMAIN documents[d].handlers : documents[d].handlers[i] = h})

\* C27 as stated: once _load_doc_real has switched documents, the previous
\* document has none of the application's four handlers registered and the current
\* one has each of them exactly once.
C27_HandlersFollowTheDocument ==
    \A d \in DOMAIN documents :
        \A k \in DOMAIN AppHandlers :
            Registrations(d, AppHandlers[k]) = (IF d = document THEN 1 ELSE 0)

\* C28 as stated: the save new_document issues persists the Document it has just
\* created, also when another document was loaded before.
C28_NewDocumentSavesNewDocument ==
    \A i \in DOMAIN new_documents : new_documents[i].saved = new_documents[i].doc

\* the load timers that are pending
LoadTimers == {t \in timeouts : t.kind = "load"}

\* C29: loads that overlap run in the order of their requests: the runs of
\* _load_doc_real are, in order, the documents _load_doc was called with, so no
\* deferred load runs after a later one; once no deferred load is pending the
\* document of the last request is current and _loading is false; and _loading,
\* once true, becomes false again.
C29_LoadsRunInRequestOrder ==
    /\ [](/\ Len(loads_run) + Cardinality(LoadTimers) = Len(load_requests)
          /\ \A i \in DOMAIN loads_run : loads_run[i].doc = load_requests[i]
          /\ (LoadTimers = {} /\ load_requests # <<>>) =>
                /\ document = load_requests[Len(load_requests)]
                /\ ~loading)
    /\ (loading ~> ~loading)

\* three loads have run, the third requested while the second was still deferred
C29_Witness ==
    /\ Len(loads_run) = MaxDocs
    /\ ~loads_run[MaxDocs].loading
    /\ LoadTimers = {}
    /\ document = load_requests[MaxDocs]
    /\ ~loading

----------------------------------------------------------------------------
\* The save debounce

\* the save timers that are pending
SaveTimers == {t \in timeouts : t.kind = "save"}

\* C30: saving is debounced.  At most one save timer is pending, the one
\* _save_timeout names; every burst of calls of _save_current_doc_with_delay (each
\* less than 500 ms after the one before) causes exactly one run of the timer's
\* callback, 500 ms after the last call of the burst, and that run calls
\* _save_current_doc once and sets _save_timeout to 0; after the first call,
\* _save_timeout is 0 whenever no save timer is pending.
C30_SaveDebounced ==
    /\ [](/\ Cardinality(SaveTimers) <= 1
          /\ \A t \in SaveTimers : t.id = save_timeout
          /\ delayed_saves + Cardinality(SaveTimers) = save_bursts
          /\ save_timeout = (IF save_bursts = 0 THEN Undefined ELSE save_timeout)
          /\ (save_bursts > 0 /\ SaveTimers = {}) => save_timeout = 0)
    /\ [][delayed_saves' # delayed_saves =>
             /\ delayed_saves' = delayed_saves + 1
             /\ since_save = save_delay
             /\ save_timeout' = 0
             /\ requests' = Append(requests, requests'[Len(requests')])
             /\ requests'[Len(requests')].cb.arg = document]_vars
    /\ [][(save_bursts' = save_bursts /\ timeout_count' # timeout_count /\ SaveTimers # {}) =>
             /\ since_save' = 0
             /\ delayed_saves' = delayed_saves]_vars

\* three calls less than 500 ms apart were followed by one run of the callback
C30_Witness ==
    /\ save_bursts = 1
    /\ timeout_count = 3
    /\ delayed_saves = 1
    /\ save_timeout = 0
    /\ SaveTimers = {}

----------------------------------------------------------------------------
\* C31: the open popup never deletes the last stored document: a click on a
\* delete button issues no deletion when the popup lists one stored document,
\* and after any clicks on delete buttons the store still holds a document.
C31_LastDocumentIsKept ==
    /\ \A i \in DOMAIN delete_clicks :
          delete_clicks[i].listed = 1 => ~delete_clicks[i].issued
    /\ delete_clicks # <<>> => db # {}

\* C32: no handler dereferences a null document: whenever _update_document_by
\* passes the _loading guard, and whenever the beforeunload handler serializes
\* the document, this.document is a Document.
C32_DocumentIsNeverNull == type_errors = 0

\* the most recently modified record of the store
MostRecent ==
    CHOOSE r \in db : \A x \in db : x.modification_time <= r.modification_time

\* the snapshot of localStorage is the one the startup restores
SnapshotMatches ==
    /\ db # {}
    /\ localStorage.item = "document"
    /\ "id" \in DOMAIN localStorage.doc
    /\ localStorage.doc.id = MostRecent.id

====
